---------------------------- MODULE Spec2Model ----------------------------
(***************************************************************************)
(* Model of the DOCX classifier (src/classify_docx.py): the text           *)
(* normaliser, the NDC and EDB matchers, the decision procedure classify   *)
(* and the per-document processing loop of main; of the deduplication      *)
(* (src/dedupe.py); and of the parallel conversion                         *)
(* (src/convert_to_docx.py).                                               *)
(*                                                                         *)
(* A Python string is a sequence of characters; a character is a one-      *)
(* character TLA+ string, or a token "<U+XXXX>" for a non-ASCII code       *)
(* point.  The value None is NoneVal.  A reason is the sequence of the     *)
(* string pieces whose concatenation is the Python reason string.          *)
(***************************************************************************)
EXTENDS Integers, Sequences, FiniteSets, TLC

VARIABLES
    mode,             \* which program or function the behaviour is a run of
    \* ---- one call of classify / of the classification step of main ----
    in_text,          \* argument first_page_text
    in_name,          \* argument filename
    in_ok,            \* argument content_read_ok
    in_reason,        \* main's local `reason` before the call (line 328 / 347)
    called,           \* whether the call has returned
    out_classify,     \* result of classify(first_page_text, filename, content_read_ok)
    out_step,         \* (classification, reason) after lines 351-357
    \* ---- a run of main() ----
    on_exists,        \* args.on_exists
    char_limit,       \* args.first_page_char_limit
    debug_first_pages,\* args.debug_first_pages
    candidates,       \* sorted(candidates, key=lambda p: str(p).lower())
    pc,               \* position of main
    i,                \* loop index (1-based)
    classification,   \* loop locals, lines 327-333
    reason,
    dest_path,
    copy_status,
    first_page,
    content_read_ok,
    records,          \* the list `records`
    dest_files,       \* files of the category folders: set of [folder, name, src]
    debug_files,      \* files under _debug_first_pages: set of [stem, text]
    now,              \* the last time read by datetime.now(), in seconds
    report,           \* rows written to classify_report.xlsx, or NoReport
    \* ---- one application of the normaliser and of the matchers to a string ----
    m_arg,            \* the string, as the pieces it is written from
    m_done,           \* whether the matchers have been applied
    m_out,            \* what they returned
    \* ---- one call of extract_first_page_text ----
    x_doc,            \* the document: [hf, body]
    x_limit,          \* argument char_limit
    x_done,           \* whether the call has returned
    x_out,            \* the text returned
    \* ---- a run of dedupe.py ----
    d_src,            \* the source folder: [ok, files], files a set of [name, mtime]
    d_dry,            \* args.dry_run
    d_pc,             \* position of main
    d_rows,           \* the list rows, as a set
    d_keep,           \* keep_set, by file name
    d_report,         \* the Excel report: [written, rows]
    d_dir,            \* whether the folder 'dedupe' exists
    d_dest,           \* files of the folder 'dedupe': set of [name, src]
    d_todo,           \* what remains of sorted(keep_set), line 178
    d_now,            \* the last time read by datetime.now(), in seconds
    \* ---- a run of convert_to_docx.py ----
    c_args,           \* [on_exists, workers, pdf2docx, env, sources]: options, environment
    c_pc,             \* position of main
    c_tasks,          \* the submitted tasks, in order: [src, type, pc, target, result]
    c_dest,           \* files of the destination folder: set of [name, src]
    c_writes,         \* the writes done in the folder so far: set of [name, task]
    c_rows,           \* the list rows
    c_report,         \* the Excel report: [written, rows]
    c_now             \* the last time read by datetime.now(), in seconds

callVars == <<in_text, in_name, in_ok, in_reason, called, out_classify, out_step>>

argVars == <<on_exists, char_limit, debug_first_pages, candidates>>

localVars == <<classification, reason, dest_path, copy_status, first_page, content_read_ok>>

matchVars == <<m_arg, m_done, m_out>>

extractVars == <<x_doc, x_limit, x_done, x_out>>

dedupeVars == <<d_src, d_dry, d_pc, d_rows, d_keep, d_report, d_dir, d_dest, d_todo, d_now>>

convertVars == <<c_args, c_pc, c_tasks, c_dest, c_writes, c_rows, c_report, c_now>>

vars == <<convertVars, dedupeVars, mode, callVars, argVars, pc, i, localVars, records,
          dest_files, debug_files, now, report, matchVars, extractVars>>

-----------------------------------------------------------------------------
(* Characters *)

UpperSeq ==
    <<"A","B","C","D","E","F","G","H","I","J","K","L","M",
      "N","O","P","Q","R","S","T","U","V","W","X","Y","Z">>

LowerSeq ==
    <<"a","b","c","d","e","f","g","h","i","j","k","l","m",
      "n","o","p","q","r","s","t","u","v","w","x","y","z">>

UpperSet == {UpperSeq[k] : k \in 1..Len(UpperSeq)}

LowerSet == {LowerSeq[k] : k \in 1..Len(LowerSeq)}

DigitSet == {"0","1","2","3","4","5","6","7","8","9"}

\* E with acute, e with acute, and the combining acute accent.
E_ACUTE == "<U+00C9>"

e_acute == "<U+00E9>"

COMBINING_ACUTE == "<U+0301>"

NoneVal == <<"<None>">>

\* Python `x or ""` for x a string or None.
OrEmpty(x) == IF x = NoneVal THEN <<>> ELSE x

\* "".join(chars) for the pieces of a reason
RECURSIVE Str(_)
Str(s) == IF s = <<>> THEN "" ELSE Head(s) \o Str(Tail(s))

LowerTable == [c \in UpperSet |-> LowerSeq[CHOOSE k \in 1..Len(UpperSeq) : UpperSeq[k] = c]]

\* str.lower() on one character
LowerChar(c) ==
    IF c \in UpperSet THEN LowerTable[c]
    ELSE IF c = E_ACUTE THEN e_acute
    ELSE c

\* str.lower()
Lower(s) == [k \in 1..Len(s) |-> LowerChar(s[k])]

\* unicodedata.normalize("NFD", c) for one character
NFDChar(c) ==
    IF c = E_ACUTE THEN <<"E", COMBINING_ACUTE>>
    ELSE IF c = e_acute THEN <<"e", COMBINING_ACUTE>>
    ELSE <<c>>

\* unicodedata.combining(c) != 0
Combining(c) == c = COMBINING_ACUTE

RECURSIVE NFD(_)
NFD(s) == IF s = <<>> THEN <<>> ELSE NFDChar(Head(s)) \o NFD(Tail(s))

\* Mutant: the combining marks are dropped without the canonical decomposition
strip_accents_NoNFD(s) ==
    IF s = NoneVal THEN <<>>
    ELSE SelectSeq(s, LAMBDA c : ~Combining(c))

strip_accents(s) ==
    IF s = NoneVal THEN <<>>
    ELSE SelectSeq(NFD(s), LAMBDA c : ~Combining(c))

\* strip_accents(x).lower()
Normalize(s) == Lower(strip_accents(s))

\* `w in s` for strings
Contains(s, w) ==
    \E k \in 1..(Len(s) + 1) :
        /\ k + Len(w) - 1 <= Len(s)
        /\ \A j \in 1..Len(w) : s[k + j - 1] = w[j]

-----------------------------------------------------------------------------
(* Character classes of the regular expressions *)

\* [A-Za-z0-9] under re.IGNORECASE
IsAlnum(c) == c \in UpperSet \cup LowerSet \cup DigitSet

\* \s
IsSpace(c) == c \in {" ", "\n", "\t"}

\* Mutant: SEP without the typographic hyphens and dashes
IsSep_AsciiOnly(c) == c \in {" ", "-", "_"}

\* SEP's class: space, hyphen, underscore, U+2011, U+2012, U+2013, U+2014
IsSep(c) == c \in {" ", "-", "_", "<U+2011>", "<U+2012>", "<U+2013>", "<U+2014>"}

\* \w on str patterns: alphanumeric (accented letters included) or underscore
IsWord(c) == IsAlnum(c) \/ c = "_" \/ c \in {E_ACUTE, e_acute}

\* [A-Za-z0-9\-_]
IsCodeChar(c) == IsAlnum(c) \/ c \in {"-", "_"}

\* [\W_]
IsFreeSep(c) == ~IsWord(c) \/ c = "_"

RECURSIVE SkipSpace(_, _)
SkipSpace(s, p) ==
    IF p <= Len(s) /\ IsSpace(s[p]) THEN SkipSpace(s, p + 1) ELSE p

RECURSIVE SkipSep(_, _)
SkipSep(s, p) ==
    IF p <= Len(s) /\ IsSep(s[p]) THEN SkipSep(s, p + 1) ELSE p

RECURSIVE SkipCode(_, _)
SkipCode(s, p) ==
    IF p <= Len(s) /\ IsCodeChar(s[p]) THEN SkipCode(s, p + 1) ELSE p

RECURSIVE SkipFreeSep(_, _)
SkipFreeSep(s, p) ==
    IF p <= Len(s) /\ IsFreeSep(s[p]) THEN SkipFreeSep(s, p + 1) ELSE p

-----------------------------------------------------------------------------
(* NDC_REGEX: (?i)(?:C\s*A\s*P\s*S|A\s*V\s*E\s*M) SEP [A-Za-z0-9]{4} SEP      *)
(*            [A-Za-z0-9][A-Za-z0-9\-_]*                                     *)

CLIENTS == << <<"c","a","p","s">>, <<"a","v","e","m">> >>

\* One CLIENT_PATTERNS entry matched from position p, letter k onwards: the
\* position after the match, 0 when it does not match.  Letters are compared
\* case-insensitively, \s* is allowed between two letters.
RECURSIVE MatchClientFrom(_, _, _, _)
MatchClientFrom(s, p, w, k) ==
    IF p > Len(s) \/ LowerChar(s[p]) # w[k] THEN 0
    ELSE IF k = Len(w) THEN p + 1
    ELSE MatchClientFrom(s, SkipSpace(s, p + 1), w, k + 1)

\* CLIENT_ALT at position p (the alternatives in order)
MatchClientAlt(s, p) ==
    LET a == MatchClientFrom(s, p, CLIENTS[1], 1)
    IN  IF a # 0 THEN a ELSE MatchClientFrom(s, p, CLIENTS[2], 1)

\* Mutant: the pattern ends with an anchor at the end of the string
NdcMatchAt_Anchored(s, p) ==
    LET c == MatchClientAlt(s, p)
        y == SkipSep(s, c)
        k == SkipSep(s, y + 4)
    IN  IF c = 0 THEN 0
        ELSE IF y + 3 > Len(s) \/ \E j \in y..(y + 3) : ~IsAlnum(s[j]) THEN 0
        ELSE IF k > Len(s) \/ ~IsAlnum(s[k]) THEN 0
        ELSE IF SkipCode(s, k + 1) = Len(s) + 1 THEN Len(s) + 1
        ELSE 0

\* NDC_REGEX.match at position p: the position after the match, 0 for no match.
\* Every quantified class is followed by a class disjoint from it, so the greedy
\* choice is the only one that can succeed.
NdcMatchAt(s, p) ==
    LET c == MatchClientAlt(s, p)
        y == SkipSep(s, c)
        k == SkipSep(s, y + 4)
    IN  IF c = 0 THEN 0
        ELSE IF y + 3 > Len(s) \/ \E j \in y..(y + 3) : ~IsAlnum(s[j]) THEN 0
        ELSE IF k > Len(s) \/ ~IsAlnum(s[k]) THEN 0
        ELSE SkipCode(s, k + 1)

\* The positions at which NDC_REGEX matches
NdcStarts(s) == {p \in 1..Len(s) : NdcMatchAt(s, p) # 0}

\* NDC_REGEX.search(s) is not None
NdcFound(s) == NdcStarts(s) # {}

Min(S) == CHOOSE x \in S : \A y \in S : x <= y

\* m.group(0) of NDC_REGEX.search(s): the leftmost match
NdcGroup0(s) ==
    LET p == Min(NdcStarts(s))
    IN  SubSeq(s, p, NdcMatchAt(s, p) - 1)

\* m = NDC_REGEX.search(s): whether m is a match, m.start() (1-based) and
\* m.group(0)
NdcSearch(s) ==
    IF NdcFound(s)
    THEN [found |-> TRUE, start |-> Min(NdcStarts(s)), group0 |-> NdcGroup0(s)]
    ELSE [found |-> FALSE, start |-> 0, group0 |-> <<>>]

-----------------------------------------------------------------------------
(* EDB_TOKENS and EDB_NAME_ABBR_REGEX *)

EDB_TOKENS ==
    << <<"e","x","p","r","e","s","s","i","o","n"," ","d","e"," ","b","e","s","o","i","n">>,
       <<"e","x","p","r","e","s","s","i","o","n"," ","d","e"," ","b","e","s","o","i","n","s">>,
       <<"e","x","p","r","e","s","s","i","o","n","s"," ","d","e"," ","b","e","s","o","i","n","s">> >>

\* The literal w stands in s at position p
HasLit(s, p, w) ==
    /\ p + Len(w) - 1 <= Len(s)
    /\ \A j \in 1..Len(w) : s[p + j - 1] = w[j]

\* \b at position p (between s[p-1] and s[p])
WordBoundary(s, p) ==
    LET before == p > 1 /\ p - 1 <= Len(s) /\ IsWord(s[p - 1])
        after  == p >= 1 /\ p <= Len(s) /\ IsWord(s[p])
    IN  before # after

\* besoin(?:s)?\b at position p
AbbrTail(s, p) ==
    /\ HasLit(s, p, <<"b","e","s","o","i","n">>)
    /\ \/ HasLit(s, p + 6, <<"s">>) /\ WordBoundary(s, p + 7)
       \/ WordBoundary(s, p + 6)

\* [\W_]*(?:de[\W_]*)?besoin(?:s)?\b at position p
AbbrRest(s, p) ==
    LET q == SkipFreeSep(s, p)
    IN  \/ HasLit(s, q, <<"d","e">>) /\ AbbrTail(s, SkipFreeSep(s, q + 2))
        \/ AbbrTail(s, q)

\* EDB_NAME_ABBR_REGEX.match at position p (the pattern is compiled without flags)
AbbrMatchAt(s, p) ==
    /\ WordBoundary(s, p)
    /\ HasLit(s, p, <<"e","x","p","r">>)
    /\ \/ HasLit(s, p + 4, <<"e","s","s","i","o","n">>) /\ AbbrRest(s, p + 10)
       \/ AbbrRest(s, p + 4)

\* EDB_NAME_ABBR_REGEX.search(s) is not None
AbbrFound(s) == \E p \in 1..Len(s) : AbbrMatchAt(s, p)

\* The first token of EDB_TOKENS contained in s (0 when none is)
FirstToken(s) ==
    IF \E k \in 1..Len(EDB_TOKENS) : Contains(s, EDB_TOKENS[k])
    THEN Min({k \in 1..Len(EDB_TOKENS) : Contains(s, EDB_TOKENS[k])})
    ELSE 0

-----------------------------------------------------------------------------
(* Detections: each returns [found, reason] *)

NotFound == [found |-> FALSE, reason |-> <<>>]

\* Mutant: the tag of the filename detector pasted into the first-page one
detect_ndc_in_first_page_WrongTag(text) ==
    LET t == OrEmpty(text)
    IN  IF NdcFound(t)
        THEN [found |-> TRUE,
              reason |-> <<"pattern:", Str(NdcGroup0(t)), " source:filename">>]
        ELSE NotFound

detect_ndc_in_first_page(text) ==
    LET t == OrEmpty(text)
    IN  IF NdcFound(t)
        THEN [found |-> TRUE,
              reason |-> <<"pattern:", Str(NdcGroup0(t)), " source:first_page">>]
        ELSE NotFound

\* Mutant: the whole filename reported instead of the matched code
detect_ndc_in_filename_WholeName(filename) ==
    LET t == OrEmpty(filename)
    IN  IF NdcFound(t)
        THEN [found |-> TRUE, reason |-> <<"pattern:", Str(t), " source:filename">>]
        ELSE NotFound

detect_ndc_in_filename(filename) ==
    LET t == OrEmpty(filename)
    IN  IF NdcFound(t)
        THEN [found |-> TRUE,
              reason |-> <<"pattern:", Str(NdcGroup0(t)), " source:filename">>]
        ELSE NotFound

\* Mutant: the tokens are looked for in the text as it is written
detect_edb_in_first_page_Raw(text) ==
    LET k == FirstToken(OrEmpty(text))
    IN  IF k # 0
        THEN [found |-> TRUE,
              reason |-> <<"contains_first_page:'", Str(EDB_TOKENS[k]), "'">>]
        ELSE NotFound

detect_edb_in_first_page(text) ==
    LET k == FirstToken(Normalize(text))
    IN  IF k # 0
        THEN [found |-> TRUE,
              reason |-> <<"contains_first_page:'", Str(EDB_TOKENS[k]), "'">>]
        ELSE NotFound

detect_edb_phrases_in_filename(filename) ==
    LET k == FirstToken(Normalize(filename))
    IN  IF k # 0
        THEN [found |-> TRUE,
              reason |-> <<"filename_contains_phrase:'", Str(EDB_TOKENS[k]), "'">>]
        ELSE NotFound

detect_edb_abbrev_in_filename(filename) ==
    IF AbbrFound(Normalize(filename))
    THEN [found |-> TRUE, reason |-> <<"filename_contains_abbrev:'expr...besoin(s)'">>]
    ELSE NotFound

-----------------------------------------------------------------------------
(* Classification *)

Result(cat, rsn) == [category |-> cat, reason |-> rsn]

\* filename_lower = (filename or "").lower()
FilenameLower(filename) == Lower(OrEmpty(filename))

\* Mutant: rule 1 without the test of content_read_ok
Rule1_IgnoresReadable(first_page_text, ok) ==
    detect_ndc_in_first_page(first_page_text).found

\* Rule 1: NDC if a code stands on the first page (readable content only)
Rule1(first_page_text, ok) ==
    ok /\ detect_ndc_in_first_page(first_page_text).found

\* Mutant: 'edb' looked up in the filename as written, not lower-cased
Rule2_CaseSensitive(filename) == Contains(OrEmpty(filename), <<"e","d","b">>)

\* Rule 2: EDB if the name contains 'edb'
Rule2(filename) == Contains(FilenameLower(filename), <<"e","d","b">>)

\* Rule 3: EDB if the name contains an EDB phrase or the abbreviation
Rule3Phrase(filename) == detect_edb_phrases_in_filename(filename).found

\* Mutant: the abbreviation looked up in the filename as written, not normalised
Rule3Abbrev_Raw(filename) == AbbrFound(OrEmpty(filename))

Rule3Abbrev(filename) == detect_edb_abbrev_in_filename(filename).found

\* Mutant: the marker is looked for in the name as written
Rule4Name_CaseSensitive(filename) == Contains(OrEmpty(filename), <<"e","b">>)

\* Rule 4: EDB if the name contains 'eb' and no code stands on the first page
Rule4Name(filename) == Contains(FilenameLower(filename), <<"e","b">>)

\* Rule 5: NDC if a code stands in the name
Rule5(filename) == detect_ndc_in_filename(filename).found

\* Mutant: rule 6 without the test of content_read_ok
Rule6_IgnoresReadable(first_page_text, ok) ==
    detect_edb_in_first_page(first_page_text).found

\* Rule 6: EDB if the first page contains an EDB phrase (readable content only)
Rule6(first_page_text, ok) ==
    ok /\ detect_edb_in_first_page(first_page_text).found

\* Mutant: rule 5 (code in the name) evaluated before rule 4 ('eb' in the name)
classify_Rule5First(first_page_text, filename, ok) ==
    IF Rule1(first_page_text, ok)
    THEN Result("NDC", detect_ndc_in_first_page(first_page_text).reason)
    ELSE IF Rule2(filename)
    THEN Result("EDB", <<"filename_contains:edb">>)
    ELSE IF Rule3Phrase(filename)
    THEN Result("EDB", detect_edb_phrases_in_filename(filename).reason)
    ELSE IF Rule3Abbrev(filename)
    THEN Result("EDB", detect_edb_abbrev_in_filename(filename).reason)
    ELSE IF Rule5(filename)
    THEN Result("NDC", detect_ndc_in_filename(filename).reason)
    ELSE IF Rule4Name(filename) /\ ok
            /\ ~detect_ndc_in_first_page(first_page_text).found
    THEN Result("EDB", <<"filename_contains:eb AND no_ndc_on_first_page">>)
    ELSE IF Rule4Name(filename) /\ ~ok
    THEN Result("EDB", <<"filename_contains:eb AND content_unreadable">>)
    ELSE IF Rule6(first_page_text, ok)
    THEN Result("EDB", detect_edb_in_first_page(first_page_text).reason)
    ELSE Result("AUTRES", <<>>)

classify(first_page_text, filename, ok) ==
    IF Rule1(first_page_text, ok)
    THEN Result("NDC", detect_ndc_in_first_page(first_page_text).reason)
    ELSE IF Rule2(filename)
    THEN Result("EDB", <<"filename_contains:edb">>)
    ELSE IF Rule3Phrase(filename)
    THEN Result("EDB", detect_edb_phrases_in_filename(filename).reason)
    ELSE IF Rule3Abbrev(filename)
    THEN Result("EDB", detect_edb_abbrev_in_filename(filename).reason)
    ELSE IF Rule4Name(filename) /\ ok
            /\ ~detect_ndc_in_first_page(first_page_text).found
    THEN Result("EDB", <<"filename_contains:eb AND no_ndc_on_first_page">>)
    ELSE IF Rule4Name(filename) /\ ~ok
    THEN Result("EDB", <<"filename_contains:eb AND content_unreadable">>)
    ELSE IF Rule5(filename)
    THEN Result("NDC", detect_ndc_in_filename(filename).reason)
    ELSE IF Rule6(first_page_text, ok)
    THEN Result("EDB", detect_edb_in_first_page(first_page_text).reason)
    ELSE Result("AUTRES", <<>>)

\* Mutant: the unreadability cause is not appended to a reason classify produced
ClassifyDocument_NoAppend(first_page_text, filename, ok, cause) ==
    LET r == classify(first_page_text, filename, ok)
        rsn == IF ~ok /\ r.reason = <<>>
               THEN (IF cause # <<>> THEN cause ELSE <<"content_unreadable">>)
               ELSE r.reason
    IN  Result(r.category, rsn)

\* Lines 351-357 of main: the call of classify and the unreadability cause
\* appended to (or standing for) its reason.
ClassifyDocument(first_page_text, filename, ok, cause) ==
    LET r == classify(first_page_text, filename, ok)
        rsn == IF ~ok /\ r.reason # <<>> THEN r.reason \o <<" | ">> \o cause
               ELSE IF ~ok /\ r.reason = <<>>
                    THEN (IF cause # <<>> THEN cause ELSE <<"content_unreadable">>)
               ELSE r.reason
    IN  Result(r.category, rsn)

-----------------------------------------------------------------------------
(* Extraction of the first page.  A document is                             *)
(*   [hf |-> the texts collected from the header and footer of section 1,   *)
(*    body |-> the children of the body, each                               *)
(*       [tag  |-> local name of the element,                               *)
(*        runs |-> texts of its w:t descendants,                            *)
(*        brk  |-> it holds a w:br of type "page",                          *)
(*        txbx |-> for each w:txbxContent below it, its w:t texts,          *)
(*        faults |-> the queries on it whose el.xpath raises: "t" for       *)
(*                   .//w:t, "br" for .//w:br, "txbx" for .//w:txbxContent],*)
(*    hf_read |-> the number of header/footer texts read before an          *)
(*                exception leaves the try block (all of them when none)]   *)

NEWLINE == <<"\n">>

\* sep.join(parts)
RECURSIVE Join(_, _)
Join(parts, sep) ==
    IF parts = <<>> THEN <<>>
    ELSE IF Len(parts) = 1 THEN parts[1]
    ELSE parts[1] \o sep \o Join(Tail(parts), sep)

\* filter(None, parts)
NonEmpty(parts) == SelectSeq(parts, LAMBDA t : t # <<>>)

\* Mutant: the slice keeps the whole string
Slice_Whole(s, n) == s

\* s[:n]
Slice(s, n) ==
    IF n >= 0 THEN SubSeq(s, 1, IF n < Len(s) THEN n ELSE Len(s))
    ELSE SubSeq(s, 1, Len(s) + n)

\* safe_xpath(el, expression): the result of the query, [] when it raises
safe_xpath(result, raises) == IF raises THEN <<>> ELSE result

element_text_runs(runs) == Join(NonEmpty(runs), NEWLINE)

\* Mutant: an exception in the try block discards the texts already collected
extract_header_footer_text_AllOrNothing(doc) ==
    IF doc.hf_read < Len(doc.hf) THEN <<>>
    ELSE Join(NonEmpty(doc.hf), NEWLINE)

extract_header_footer_text(doc) ==
    Join(NonEmpty(SubSeq(doc.hf, 1, doc.hf_read)), NEWLINE)

\* sum(len(p) + 1 for p in parts)
RECURSIVE SumLen(_)
SumLen(parts) ==
    IF parts = <<>> THEN 0 ELSE Len(Head(parts)) + 1 + SumLen(Tail(parts))

\* Mutant: a page break does not end the traversal
RECURSIVE ExtractBody_IgnoresBreak(_, _, _, _, _)
ExtractBody_IgnoresBreak(body, k, parts, total_len, limit) ==
    IF k > Len(body) THEN Slice(Join(parts, NEWLINE), limit)
    ELSE
      LET child  == body[k]
          txt    == IF child.tag \in {"p", "tbl"}
                    THEN element_text_runs(safe_xpath(child.runs,
                                                      "t" \in child.faults))
                    ELSE <<>>
          parts1 == IF txt # <<>> THEN Append(parts, txt) ELSE parts
          total1 == IF txt # <<>> THEN total_len + Len(txt) + 1 ELSE total_len
          boxes  == safe_xpath(child.txbx, "txbx" \in child.faults)
          chunks == [j \in 1..Len(boxes) |-> element_text_runs(boxes[j])]
          tx     == Join(NonEmpty(chunks), NEWLINE)
          parts2 == IF tx # <<>> THEN Append(parts1, tx) ELSE parts1
          total2 == IF tx # <<>> THEN total1 + Len(tx) + 1 ELSE total1
      IN  IF total2 >= limit THEN Slice(Join(parts2, NEWLINE), limit)
          ELSE ExtractBody_IgnoresBreak(body, k + 1, parts2, total2, limit)

\* The loop over body.iterchildren() from child k on, and the final return
RECURSIVE ExtractBody(_, _, _, _, _)
ExtractBody(body, k, parts, total_len, limit) ==
    IF k > Len(body) THEN Slice(Join(parts, NEWLINE), limit)
    ELSE
      LET child  == body[k]
          txt    == IF child.tag \in {"p", "tbl"}
                    THEN element_text_runs(safe_xpath(child.runs,
                                                      "t" \in child.faults))
                    ELSE <<>>
          parts1 == IF txt # <<>> THEN Append(parts, txt) ELSE parts
          total1 == IF txt # <<>> THEN total_len + Len(txt) + 1 ELSE total_len
          boxes  == safe_xpath(child.txbx, "txbx" \in child.faults)
          chunks == [j \in 1..Len(boxes) |-> element_text_runs(boxes[j])]
          tx     == Join(NonEmpty(chunks), NEWLINE)
          parts2 == IF tx # <<>> THEN Append(parts1, tx) ELSE parts1
          total2 == IF tx # <<>> THEN total1 + Len(tx) + 1 ELSE total1
          brs    == safe_xpath(IF child.brk THEN <<"page">> ELSE <<>>,
                               "br" \in child.faults)
      IN  IF child.tag = "p" /\ brs # <<>> THEN Join(parts1, NEWLINE)
          ELSE IF total2 >= limit THEN Slice(Join(parts2, NEWLINE), limit)
          ELSE ExtractBody(body, k + 1, parts2, total2, limit)

\* Mutant: the header/footer text is left out
extract_first_page_text_NoHeader(doc, limit) ==
    ExtractBody(doc.body, 1, <<>>, 0, limit)

extract_first_page_text(doc, limit) ==
    LET hf    == extract_header_footer_text(doc)
        parts == IF hf # <<>> THEN <<hf>> ELSE <<>>
    IN  ExtractBody(doc.body, 1, parts, SumLen(parts), limit)

-----------------------------------------------------------------------------
(* Copies *)

\* Path.suffix of a file name
Suffix(name) ==
    LET dots == {k \in 1..Len(name) : name[k] = "."}
        last == CHOOSE k \in dots : \A j \in dots : j <= k
    IN  IF dots = {} THEN <<>>
        ELSE IF last = 1 \/ last = Len(name) THEN <<>>
        ELSE SubSeq(name, last, Len(name))

\* Path.stem of a file name
Stem(name) == SubSeq(name, 1, Len(name) - Len(Suffix(name)))

\* datetime.now().strftime("%Y%m%d_%H%M%S") at second t
Timestamp(t) == <<"<ts:" \o ToString(t) \o ">">>

Exists(files, folder, name) ==
    \E f \in files : f.folder = folder /\ f.name = name

\* shutil.copy2(src, dst_dir / name): the file is created or replaced
Copy2(files, src, folder, name) ==
    {f \in files : ~(f.folder = folder /\ f.name = name)}
        \cup {[folder |-> folder, name |-> name, src |-> src]}

\* safe_copy(src, dst_dir, on_exists) when no call fails, the time read being t:
\* the destination, the status and the files of the output folders afterwards.
safe_copy(files, src, folder, policy, t) ==
    IF Exists(files, folder, src.name)
    THEN IF policy = "skip"
         THEN [dst |-> <<folder, src.name>>, status |-> "skipped_existing",
               files |-> files]
         ELSE IF policy = "overwrite"
         THEN [dst |-> <<folder, src.name>>, status |-> "overwritten",
               files |-> Copy2(files, src, folder, src.name)]
         ELSE LET suffixed == Stem(src.name) \o <<"_">> \o Timestamp(t)
                                  \o Suffix(src.name)
              IN  [dst |-> <<folder, suffixed>>, status |-> "copied_with_suffix",
                   files |-> Copy2(files, src, folder, suffixed)]
    ELSE [dst |-> <<folder, src.name>>, status |-> "copied",
          files |-> Copy2(files, src, folder, src.name)]

\* Lines 360-367: the folder of a category
TargetDir(cat) ==
    IF cat = "EDB" THEN "edb"
    ELSE IF cat = "NDC" THEN "ndc"
    ELSE IF cat = "AUTRES" THEN "autres"
    ELSE "none"

-----------------------------------------------------------------------------
(* Inputs *)

MaxNameFrags == 2

MaxTextFrags == 2

MaxDocs == 2

MaxClock == 1

\* The strings made of at most n fragments of F
RECURSIVE Concats(_, _)
Concats(F, n) ==
    IF n = 0 THEN {<<>>}
    ELSE LET shorter == Concats(F, n - 1)
         IN  shorter \cup {a \o f : a \in shorter, f \in F}

W_EDB == <<"E","D","B">>

W_eb == <<"e","b">>

W_Eb == <<"E","b">>

W_NDC_NAME == <<"A","v","e","m","2","0","2","1","_","7">>

W_ABBR == <<"E","x","p","r","_","B","e","s","o","i","n","s">>

W_PHRASE_NAME ==
    <<"E","x","p","r",e_acute,"s","s","i","o","n"," ","d","e"," ","B","e","s","o","i","n">>

W_x == <<"x">>

W_DOCX == <<".","d","o","c","x">>

W_NDC_TEXT == <<"c","a","p"," ","S","<U+2013>","2","0","2","0"," ","1","3">>

W_PHRASE_TEXT ==
    <<E_ACUTE,"X","P","R","E","S","S","I","O","N","S"," ","d","e"," ","b","e","s","o","i","n","s">>

NameFrags == {W_EDB, W_eb, W_Eb, W_NDC_NAME, W_ABBR, W_PHRASE_NAME, W_x, W_DOCX}

TextFrags == {W_NDC_TEXT, W_PHRASE_TEXT, W_x}

Names == Concats(NameFrags, MaxNameFrags) \cup {NoneVal}

Texts == Concats(TextFrags, MaxTextFrags) \cup {NoneVal}

\* type(e).__name__ of the exceptions the extraction raises
ExcTypes == {"PackageNotFoundError", "KeyError"}

\* Line 347: reason = f"content_unreadable:{type(e).__name__}"
Unreadable(e) == <<"content_unreadable:", e>>

NoCall == [category |-> "none", reason |-> <<>>]

NoReport == <<"no report">>

NoPath == <<>>

-----------------------------------------------------------------------------
(* One call of classify, and of the classification step of main, on inputs  *)
(* drawn from Names, Texts and the readability flag.                        *)

NoArg == [kind |-> "none", parts |-> <<>>]

\* A source folder that does not exist or is not a folder
NoDir == [ok |-> FALSE, files |-> {}]

\* No Excel report of the deduplication
NoRows == [written |-> FALSE, rows |-> {}]

DedupeIdle ==
    /\ d_src = NoDir /\ d_dry = FALSE /\ d_pc = "idle" /\ d_rows = {}
    /\ d_keep = {} /\ d_report = NoRows /\ d_dir = FALSE /\ d_dest = {}
    /\ d_todo = <<>> /\ d_now = 0

ConvertIdle ==
    /\ c_args = [on_exists |-> "skip", workers |-> 0, pdf2docx |-> TRUE, env |-> "ok",
                 sources |-> {}]
    /\ c_pc = "idle" /\ c_tasks = <<>> /\ c_dest = {} /\ c_writes = {}
    /\ c_rows = <<>> /\ c_report = [written |-> FALSE, rows |-> <<>>] /\ c_now = 0

MatchIdle == m_arg = NoArg /\ m_done = FALSE /\ m_out = NoCall

ExtractIdle ==
    /\ x_doc = [hf |-> <<>>, hf_read |-> 0, body |-> <<>>] /\ x_limit = 0
    /\ x_done = FALSE /\ x_out = <<>>

MainIdle ==
    /\ on_exists = "skip" /\ char_limit = 0 /\ debug_first_pages = FALSE
    /\ candidates = <<>> /\ pc = "idle" /\ i = 0
    /\ classification = "" /\ reason = <<>> /\ dest_path = NoPath
    /\ copy_status = "" /\ first_page = <<>> /\ content_read_ok = TRUE
    /\ records = <<>> /\ dest_files = {} /\ debug_files = {} /\ now = 0
    /\ report = NoReport

InitClassify ==
    /\ ConvertIdle
    /\ DedupeIdle
    /\ mode = "classify"
    /\ in_name \in Names
    /\ in_text \in Texts
    /\ in_ok \in BOOLEAN
    /\ in_reason \in (IF in_ok THEN {<<>>} ELSE {Unreadable(e) : e \in ExcTypes})
    /\ called = FALSE
    /\ out_classify = NoCall
    /\ out_step = NoCall
    /\ MainIdle
    /\ MatchIdle
    /\ ExtractIdle

CallClassify ==
    /\ mode = "classify"
    /\ ~called
    /\ called' = TRUE
    /\ out_classify' = classify(in_text, in_name, in_ok)
    /\ out_step' = ClassifyDocument(in_text, in_name, in_ok, in_reason)
    /\ UNCHANGED <<convertVars, dedupeVars, extractVars, matchVars, mode, in_text, in_name, in_ok, in_reason, argVars, pc, i,
                   localVars, records, dest_files, debug_files, now, report>>

NextClassify == CallClassify

SpecClassify == InitClassify /\ [][NextClassify]_vars

-----------------------------------------------------------------------------
(* A run of main().  A candidate file is                                    *)
(*   [dir |-> its folder below --docx-dir, name |-> its file name,          *)
(*    open |-> "ok", or the exception its extraction raises,                *)
(*    tree |-> its document when it can be read]                            *)

DEFAULT_FIRST_PAGE_CHAR_LIMIT == 12000

SMALL_CHAR_LIMIT == 10

Para(runs, brk) ==
    [tag |-> "p", runs |-> runs, brk |-> brk, txbx |-> <<>>, faults |-> {}]

Table(runs) ==
    [tag |-> "tbl", runs |-> runs, brk |-> FALSE, txbx |-> <<>>, faults |-> {}]

EmptyTree == [hf |-> <<>>, hf_read |-> 0, body |-> <<>>]

\* A code in the first paragraph
TreeNdc ==
    [hf |-> <<>>, hf_read |-> 0, body |-> <<Para(<<W_x, W_NDC_TEXT>>, FALSE)>>]

\* A phrase before the first page break, a code after it
TreePhrase ==
    [hf |-> <<W_x>>, hf_read |-> 1,
     body |-> <<Para(<<W_PHRASE_TEXT>>, TRUE), Table(<<W_NDC_TEXT>>)>>]

Contents ==
    {[open |-> "ok", tree |-> t] : t \in {TreeNdc, TreePhrase}}
        \cup {[open |-> e, tree |-> EmptyTree] : e \in ExcTypes}

MainStems == {W_eb, W_NDC_NAME, W_ABBR, W_x}

ROOT == <<>>

SUB == <<"s","u","b">>

MkDoc(dir, stem, c) ==
    [dir |-> dir, name |-> stem \o W_DOCX, open |-> c.open, tree |-> c.tree]

\* in_dir.glob("*.docx")
RootDocs == {MkDoc(ROOT, st, c) : st \in MainStems, c \in Contents}

\* what in_dir.rglob("*.docx") adds
SubDocs ==
    {MkDoc(SUB, W_x, [open |-> "ok", tree |-> TreePhrase]),
     MkDoc(SUB, W_x, [open |-> "KeyError", tree |-> EmptyTree])}

\* str(path), relative to --docx-dir
PathStr(d) == IF d.dir = ROOT THEN d.name ELSE d.dir \o <<"/">> \o d.name

\* The characters in code point order
CharOrder ==
    <<"\t", "\n", " ", "-", ".", "/">>
        \o <<"0","1","2","3","4","5","6","7","8","9">>
        \o UpperSeq \o <<"_">> \o LowerSeq
        \o <<E_ACUTE, e_acute, COMBINING_ACUTE,
             "<U+2011>", "<U+2012>", "<U+2013>", "<U+2014>">>

Ord(c) == CHOOSE k \in 1..Len(CharOrder) : CharOrder[k] = c

\* a <= b for Python strings
RECURSIVE StrLeq(_, _)
StrLeq(a, b) ==
    IF a = <<>> THEN TRUE
    ELSE IF b = <<>> THEN FALSE
    ELSE IF Head(a) = Head(b) THEN StrLeq(Tail(a), Tail(b))
    ELSE Ord(Head(a)) < Ord(Head(b))

\* key=lambda p: str(p).lower()
SortKey(d) == Lower(PathStr(d))

\* sorted(candidates, key=...): lists of distinct paths in key order
SortedCandidates(docs) ==
    {c \in UNION {[1..n -> docs] : n \in 0..MaxDocs} :
        \A k, l \in 1..Len(c) :
            k < l => /\ PathStr(c[k]) # PathStr(c[l])
                     /\ StrLeq(SortKey(c[k]), SortKey(c[l]))}

\* Files left in the output folders by an earlier run
OldFiles ==
    {[folder |-> "autres", name |-> W_x \o W_DOCX, src |-> "old"],
     [folder |-> "edb", name |-> W_eb \o W_DOCX, src |-> "old"]}

\* type(e).__name__ and str(e) of the exceptions shutil.copy2 / mkdir raise
CopyExcTypes == {"PermissionError"}

Init ==
    /\ ConvertIdle
    /\ DedupeIdle
    /\ mode = "main"
    /\ in_text = <<>> /\ in_name = <<>> /\ in_ok = TRUE /\ in_reason = <<>>
    /\ called = FALSE /\ out_classify = NoCall /\ out_step = NoCall
    /\ on_exists \in {"skip", "overwrite", "suffix"}
    /\ char_limit \in {DEFAULT_FIRST_PAGE_CHAR_LIMIT, SMALL_CHAR_LIMIT}
    /\ debug_first_pages \in BOOLEAN
    /\ \E recursive \in BOOLEAN :
          candidates \in SortedCandidates(IF recursive THEN RootDocs \cup SubDocs
                                          ELSE RootDocs)
    /\ pc = "loop"
    /\ i = 1
    /\ classification = "" /\ reason = <<>> /\ dest_path = NoPath
    /\ copy_status = "" /\ first_page = <<>> /\ content_read_ok = TRUE
    /\ records = <<>>
    /\ dest_files = OldFiles
    /\ debug_files = {}
    /\ now = 0
    /\ report = NoReport
    /\ MatchIdle
    /\ ExtractIdle

\* Mutant: the locals content_read_ok and reason keep the values the previous
\* document left in them
ExtractOk_StaleLocals ==
    /\ mode = "main" /\ pc = "loop" /\ i <= Len(candidates)
    /\ candidates[i].open = "ok"
    /\ classification' = "ERREUR"
    /\ dest_path' = NoPath
    /\ copy_status' = "not_copied"
    /\ first_page' = extract_first_page_text(candidates[i].tree, char_limit)
    /\ pc' = IF debug_first_pages THEN "debug" ELSE "classify"
    /\ UNCHANGED <<convertVars, dedupeVars, extractVars, matchVars, mode, callVars, argVars, i, reason, content_read_ok, records,
                   dest_files, debug_files, now, report>>

\* Lines 321-337: the next document, its locals, and an extraction that succeeds
ExtractOk ==
    /\ mode = "main" /\ pc = "loop" /\ i <= Len(candidates)
    /\ candidates[i].open = "ok"
    /\ classification' = "ERREUR"
    /\ reason' = <<>>
    /\ dest_path' = NoPath
    /\ copy_status' = "not_copied"
    /\ content_read_ok' = TRUE
    /\ first_page' = extract_first_page_text(candidates[i].tree, char_limit)
    /\ pc' = IF debug_first_pages THEN "debug" ELSE "classify"
    /\ UNCHANGED <<convertVars, dedupeVars, extractVars, matchVars, mode, callVars, argVars, i, records, dest_files, debug_files,
                   now, report>>

\* Mutant: the exception of the extraction is not caught and ends main
ExtractFail_Propagates ==
    /\ mode = "main" /\ pc = "loop" /\ i <= Len(candidates)
    /\ candidates[i].open # "ok"
    /\ pc' = "failed"
    /\ UNCHANGED <<convertVars, dedupeVars, extractVars, matchVars, mode, callVars, argVars, i, localVars, records, dest_files,
                   debug_files, now, report>>

\* Lines 321-347: the next document, its locals, and an extraction that raises
ExtractFail ==
    /\ mode = "main" /\ pc = "loop" /\ i <= Len(candidates)
    /\ candidates[i].open # "ok"
    /\ classification' = "ERREUR"
    /\ dest_path' = NoPath
    /\ copy_status' = "not_copied"
    /\ first_page' = <<>>
    /\ content_read_ok' = FALSE
    /\ reason' = Unreadable(candidates[i].open)
    /\ pc' = "classify"
    /\ UNCHANGED <<convertVars, dedupeVars, extractVars, matchVars, mode, callVars, argVars, i, records, dest_files, debug_files,
                   now, report>>

\* Lines 338-341: the debug text is written (mode "w" replaces an older file)
DebugWrite ==
    /\ mode = "main" /\ pc = "debug"
    /\ LET st == Stem(candidates[i].name)
       IN  debug_files' = {f \in debug_files : f.stem # st}
                              \cup {[stem |-> st, text |-> first_page]}
    /\ pc' = "classify"
    /\ UNCHANGED <<convertVars, dedupeVars, extractVars, matchVars, mode, callVars, argVars, i, localVars, records, dest_files,
                   now, report>>

\* Lines 342-343: writing the debug text raises, the exception is dropped
DebugWriteFail ==
    /\ mode = "main" /\ pc = "debug"
    /\ pc' = "classify"
    /\ UNCHANGED <<convertVars, dedupeVars, extractVars, matchVars, mode, callVars, argVars, i, localVars, records, dest_files,
                   debug_files, now, report>>

\* Lines 351-357
ClassifyStep ==
    /\ mode = "main" /\ pc = "classify"
    /\ LET r == ClassifyDocument(first_page, candidates[i].name, content_read_ok,
                                 reason)
       IN  /\ classification' = r.category
           /\ reason' = r.reason
    /\ pc' = "copy"
    /\ UNCHANGED <<convertVars, dedupeVars, extractVars, matchVars, mode, callVars, argVars, i, dest_path, copy_status, first_page,
                   content_read_ok, records, dest_files, debug_files, now, report>>

\* Lines 379-386: the record of the current document
Record(cls, rsn, dst, status) ==
    [filename |-> candidates[i].name,
     original_path |-> PathStr(candidates[i]),
     classification |-> cls,
     reason |-> rsn,
     destination_path |-> dst,
     copy_status |-> status]

\* Lines 359-372 and 379-386: the copy succeeds, the document is recorded
CopyOk ==
    /\ mode = "main" /\ pc = "copy"
    /\ \E t \in now..MaxClock :
         LET dir == TargetDir(classification)
             c   == safe_copy(dest_files, candidates[i], dir, on_exists, t)
             dst == IF dir = "none" THEN dest_path ELSE c.dst
             st  == IF dir = "none" THEN copy_status ELSE c.status
         IN  /\ now' = IF dir # "none" /\ c.status = "copied_with_suffix"
                       THEN t ELSE now
             /\ dest_files' = IF dir = "none" THEN dest_files ELSE c.files
             /\ dest_path' = dst
             /\ copy_status' = st
             /\ records' = Append(records, Record(classification, reason, dst, st))
    /\ i' = i + 1
    /\ pc' = "loop"
    /\ UNCHANGED <<convertVars, dedupeVars, extractVars, matchVars, mode, callVars, argVars, classification, reason, first_page,
                   content_read_ok, debug_files, report>>

\* Mutant: the exception of safe_copy is not caught and ends main
CopyFail_Uncaught ==
    /\ mode = "main" /\ pc = "copy"
    /\ TargetDir(classification) # "none"
    /\ pc' = "failed"
    /\ UNCHANGED <<convertVars, dedupeVars, extractVars, matchVars, mode, callVars, argVars, i, localVars, records, dest_files,
                   debug_files, now, report>>

\* Lines 370-386: safe_copy raises, the document is recorded as ERREUR
CopyFail ==
    /\ mode = "main" /\ pc = "copy"
    /\ TargetDir(classification) # "none"
    /\ \E e \in CopyExcTypes :
         LET rsn == <<"exception:", e, ": ", "<str(e)>">>
         IN  /\ classification' = "ERREUR"
             /\ reason' = rsn
             /\ records' = Append(records, Record("ERREUR", rsn, dest_path, copy_status))
    /\ i' = i + 1
    /\ pc' = "loop"
    /\ UNCHANGED <<convertVars, dedupeVars, extractVars, matchVars, mode, callVars, argVars, dest_path, copy_status, first_page,
                   content_read_ok, dest_files, debug_files, now, report>>

\* Lines 389-395: the report is written
WriteReport ==
    /\ mode = "main" /\ pc = "loop" /\ i > Len(candidates)
    /\ report' = records
    /\ pc' = "done"
    /\ UNCHANGED <<convertVars, dedupeVars, extractVars, matchVars, mode, callVars, argVars, i, localVars, records, dest_files,
                   debug_files, now>>

\* Line 395: writing the report raises, main ends with the exception
WriteReportFail ==
    /\ mode = "main" /\ pc = "loop" /\ i > Len(candidates)
    /\ pc' = "failed"
    /\ UNCHANGED <<convertVars, dedupeVars, extractVars, matchVars, mode, callVars, argVars, i, localVars, records, dest_files,
                   debug_files, now, report>>

Next ==
    \/ ExtractOk
    \/ ExtractFail
    \/ DebugWrite
    \/ DebugWriteFail
    \/ ClassifyStep
    \/ CopyOk
    \/ CopyFail
    \/ WriteReport
    \/ WriteReportFail

Spec == Init /\ [][Next]_vars

-----------------------------------------------------------------------------
(* One application of the normaliser, of NDC_REGEX and of the EDB detections *)
(* to a string.  The string is given by the pieces it is written from:       *)
(*   kind "ndc": <<text before, client token, separators, year, separators,  *)
(*                 code>>                                                     *)
(*   kind "edb": <<text before, root, separators, linking word, separators,  *)
(*                 noun, text after>>                                         *)

MaxSeps == 1

MaxFreeSeps == 1

RECURSIVE Flatten(_)
Flatten(parts) == IF parts = <<>> THEN <<>> ELSE Head(parts) \o Flatten(Tail(parts))

UpperTable == [c \in LowerSet |-> UpperSeq[CHOOSE k \in 1..Len(LowerSeq) : LowerSeq[k] = c]]

\* str.upper() on one character
UpperChar(c) ==
    IF c \in LowerSet THEN UpperTable[c]
    ELSE IF c = e_acute THEN E_ACUTE
    ELSE c

\* str.upper()
Upper(s) == [k \in 1..Len(s) |-> UpperChar(s[k])]

\* A client of CLIENTS written in capitals or in mixed case, with the
\* whitespace gap between all its letters or before the last one only
Spell(w, casing, gap, place) ==
    LET l(k) == IF casing = "upper" \/ k % 2 = 0 THEN <<UpperChar(w[k])>> ELSE <<w[k]>>
        g    == IF place = "all" THEN gap ELSE <<>>
    IN  l(1) \o g \o l(2) \o g \o l(3) \o gap \o l(4)

Gaps == {<<>>, <<" ">>, <<"\t", "\n">>}

ClientSpellings ==
    {Spell(CLIENTS[k], casing, gap, place) :
        k \in 1..Len(CLIENTS), casing \in {"upper", "mixed"}, gap \in Gaps,
        place \in {"all", "last"}}

SepFrags == {<<" ">>, <<"-">>, <<"_">>, <<"<U+2011>">>, <<"<U+2012>">>,
             <<"<U+2013>">>, <<"<U+2014>">>}

NdcPrefixes == {<<>>, <<"X">>, <<"_">>, <<"C","a","p","s","-">>}

\* year and code
YearCodes == {<< <<"2","0","2","0">>, <<"1","3","2">> >>,
              << <<"A","1","b","2">>, <<"x">> >>,
              << <<"2","0","2">>, <<"1","3","2">> >>}

Seps2 == {<<>>, <<"-">>, <<"_">>, <<" ">>}

NdcArgs ==
    {[kind |-> "ndc", parts |-> <<pre, cl, s1, yc[1], s2, yc[2]>>] :
        pre \in NdcPrefixes, cl \in ClientSpellings,
        s1 \in Concats(SepFrags, MaxSeps), yc \in YearCodes, s2 \in Seps2}

EdbPrefixes == {<<>>, <<"P","r","o","j","e","t","_">>}

EdbRoots ==
    {<<"e","x","p","r">>,
     <<"e","x","p","r","e","s","s","i","o","n">>,
     <<E_ACUTE,"X","P","R","E","S","S","I","O","N">>,
     <<"E","x","p","r","e",COMBINING_ACUTE,"s","s","i","o","n","s">>}

FreeSepFrags == {<<" ">>, <<"_">>, <<"-">>, <<".">>}

\* linking word and the separators after it
Links == {<< <<>>, <<>> >>, << <<"d","e">>, <<" ">> >>,
          << <<"D","e">>, <<"_">> >>, << <<"d","e">>, <<>> >>}

Nouns == {<<"b","e","s","o","i","n">>, <<"B","E","S","O","I","N","S">>}

EdbSuffixes == {<<>>, <<"_","v","2",".","d","o","c","x">>, <<".","d","o","c","x">>}

EdbArgs ==
    {[kind |-> "edb", parts |-> <<pre, root, s1, ln[1], ln[2], noun, suf>>] :
        pre \in EdbPrefixes, root \in EdbRoots,
        s1 \in Concats(FreeSepFrags, MaxFreeSeps), ln \in Links, noun \in Nouns,
        suf \in EdbSuffixes}

\* Texts that may follow a string
TrailingTexts ==
    {<<"_","P","F">>, <<"-","9">>, <<"Z">>, <<" ","x">>, <<".","d","o","c","x">>}

\* The string the pieces write
MText == Flatten(m_arg.parts)

\* The first page of a document whose body is one paragraph with the pieces
\* as its text runs
MPage ==
    extract_first_page_text(
        [hf |-> <<>>, hf_read |-> 0, body |-> <<Para(m_arg.parts, FALSE)>>],
        DEFAULT_FIRST_PAGE_CHAR_LIMIT)

InitMatch ==
    /\ ConvertIdle
    /\ DedupeIdle
    /\ mode = "match"
    /\ m_arg \in NdcArgs \cup EdbArgs
    /\ m_done = FALSE
    /\ m_out = NoCall
    /\ in_text = <<>> /\ in_name = <<>> /\ in_ok = TRUE /\ in_reason = <<>>
    /\ called = FALSE /\ out_classify = NoCall /\ out_step = NoCall
    /\ MainIdle
    /\ ExtractIdle

\* The normaliser (lines 218, 226, 237), NDC_REGEX.search (206, 212) on the
\* string and on the string followed by a trailing text, the EDB detections
\* (217-240) and classify (243-288) with the string as the filename of a
\* readable document whose first page is empty, and the first-page detections
\* on the text extracted (126-175) from a paragraph whose runs are the pieces.
CallMatchers ==
    /\ mode = "match"
    /\ ~m_done
    /\ m_done' = TRUE
    /\ m_out' = [norm      |-> Normalize(MText),
                 ndc       |-> NdcSearch(MText),
                 ndc_trail |-> [t \in TrailingTexts |-> NdcSearch(MText \o t)],
                 edb_page  |-> detect_edb_in_first_page(MText),
                 edb_name  |-> detect_edb_phrases_in_filename(MText),
                 abbrev    |-> detect_edb_abbrev_in_filename(MText),
                 as_name   |-> classify(<<>>, MText, TRUE),
                 page_ndc  |-> detect_ndc_in_first_page(MPage),
                 page_edb  |-> detect_edb_in_first_page(MPage)]
    /\ UNCHANGED <<convertVars, dedupeVars, extractVars, mode, m_arg, callVars, argVars, pc, i, localVars, records,
                   dest_files, debug_files, now, report>>

NextMatch == CallMatchers

SpecMatch == InitMatch /\ [][NextMatch]_vars

-----------------------------------------------------------------------------
(* One call of extract_first_page_text on a document made of up to MaxNodes  *)
(* body children and a character limit up to MaxLimit.                       *)

MaxNodes == 3

MaxLimit == 8

\* A paragraph that holds a text box: .//w:t finds the text of the box too
ParaWithBox ==
    [tag |-> "p", runs |-> << <<"g">>, <<"b","x">> >>, brk |-> FALSE,
     txbx |-> << << <<"b","x">> >> >>, faults |-> {}]

\* A body child that is neither a paragraph nor a table (w:sectPr)
OtherNode ==
    [tag |-> "sectpr", runs |-> <<>>, brk |-> FALSE, txbx |-> <<>>, faults |-> {}]

NodeMenu ==
    {Para(<< <<"a","b","c">> >>, FALSE),
     Para(<< <<"d","e">>, <<>>, <<"f">> >>, TRUE),
     Para(<<>>, TRUE),
     Table(<< <<"t","t">>, <<"u">> >>),
     ParaWithBox,
     [ParaWithBox EXCEPT !.brk = TRUE],
     OtherNode}

Bodies == UNION {[1..n -> NodeMenu] : n \in 0..MaxNodes}

HeaderFooters == {<<>>, << <<"h">>, <<>>, <<"f","f">> >>}

InitExtract ==
    /\ ConvertIdle
    /\ DedupeIdle
    /\ mode = "extract"
    /\ x_doc \in {[hf |-> h, hf_read |-> Len(h), body |-> b] :
                      h \in HeaderFooters, b \in Bodies}
    /\ x_limit \in 0..MaxLimit
    /\ x_done = FALSE
    /\ x_out = <<>>
    /\ in_text = <<>> /\ in_name = <<>> /\ in_ok = TRUE /\ in_reason = <<>>
    /\ called = FALSE /\ out_classify = NoCall /\ out_step = NoCall
    /\ MainIdle
    /\ MatchIdle

\* Lines 126-175
CallExtract ==
    /\ mode = "extract"
    /\ ~x_done
    /\ x_done' = TRUE
    /\ x_out' = extract_first_page_text(x_doc, x_limit)
    /\ UNCHANGED <<convertVars, dedupeVars, mode, x_doc, x_limit, matchVars, callVars, argVars, pc, i,
                   localVars, records, dest_files, debug_files, now, report>>

NextExtract == CallExtract

SpecExtract == InitExtract /\ [][NextExtract]_vars

-----------------------------------------------------------------------------
(* One call of extract_first_page_text on a document of up to MaxFaultNodes  *)
(* body children in which the reading of one sub-part raises.                *)

MaxFaultNodes == 2

\* The queries made on a body child that find something
QueriesOn(node) ==
    (IF node.tag \in {"p", "tbl"} /\ node.runs # <<>> THEN {"t"} ELSE {})
        \cup (IF node.tag = "p" /\ node.brk THEN {"br"} ELSE {})
        \cup (IF node.txbx # <<>> THEN {"txbx"} ELSE {})

\* The document with one fault: in the header/footer after n texts, or in one
\* query on one body child
WithOneFault(doc) ==
    {[doc EXCEPT !.hf_read = n] : n \in 0..(Len(doc.hf) - 1)}
        \cup UNION {{[doc EXCEPT !.body[k].faults = {q}] : q \in QueriesOn(doc.body[k])} :
                       k \in 1..Len(doc.body)}

FaultyDocs ==
    UNION {WithOneFault([hf |-> h, hf_read |-> Len(h), body |-> b]) :
              h \in HeaderFooters,
              b \in UNION {[1..n -> NodeMenu] : n \in 0..MaxFaultNodes}}

InitExtractFault ==
    /\ ConvertIdle
    /\ DedupeIdle
    /\ mode = "extract"
    /\ x_doc \in FaultyDocs
    /\ x_limit \in 0..MaxLimit
    /\ x_done = FALSE
    /\ x_out = <<>>
    /\ in_text = <<>> /\ in_name = <<>> /\ in_ok = TRUE /\ in_reason = <<>>
    /\ called = FALSE /\ out_classify = NoCall /\ out_step = NoCall
    /\ MainIdle
    /\ MatchIdle

SpecExtractFault == InitExtractFault /\ [][NextExtract]_vars

-----------------------------------------------------------------------------
(* Properties of classify and of the classification step (SpecClassify)      *)

NameStr == OrEmpty(in_name)

TextStr == OrEmpty(in_text)

NameHasEdb == Contains(Lower(NameStr), <<"e","d","b">>)

NameHasEb == Contains(Lower(NameStr), <<"e","b">>)

NameHasPhrase == FirstToken(Normalize(in_name)) # 0

NameHasAbbrev == AbbrFound(Normalize(in_name))

NameHasNdc == NdcFound(NameStr)

TextHasNdc == NdcFound(TextStr)

TextHasPhrase == FirstToken(Normalize(in_text)) # 0

\* A reason piece that says the content could not be read
UnreadablePieces ==
    {"content_unreadable:", "content_unreadable",
     "filename_contains:eb AND content_unreadable"}

Mentions(rsn, pieces) == \E k \in 1..Len(rsn) : rsn[k] \in pieces

\* C1: when the content is readable and the first page holds a code, the result
\* is NDC and the reason is the matched code tagged source:first_page, whatever
\* the filename holds.
C1_FirstPageCodeWins ==
    (called /\ in_ok /\ TextHasNdc) =>
        out_classify = Result("NDC", <<"pattern:", Str(NdcGroup0(TextStr)),
                                       " source:first_page">>)

C1_Witness ==
    /\ called /\ in_ok /\ TextHasNdc
    /\ NameHasEdb /\ NameHasNdc
    /\ out_classify.category = "NDC"

\* C2: a filename containing 'edb' in any letter case, with no code found on a
\* readable first page, gives EDB with the reason filename_contains:edb, also
\* when the filename holds a code.
C2_EdbMarkerInName ==
    (called /\ NameHasEdb /\ ~(in_ok /\ TextHasNdc)) =>
        out_classify = Result("EDB", <<"filename_contains:edb">>)

C2_Witness ==
    /\ called /\ NameHasEdb /\ NameHasNdc /\ ~(in_ok /\ TextHasNdc)
    /\ ~Contains(NameStr, <<"e","d","b">>)
    /\ out_classify.category = "EDB"

\* C3: for an unreadable document whose filename contains 'eb' in any letter
\* case, the classification step gives EDB and a reason that says the content
\* was unreadable, whatever else the filename holds.
C3_UnreadableEbFallback ==
    (called /\ ~in_ok /\ NameHasEb) =>
        /\ out_step.category = "EDB"
        /\ Mentions(out_step.reason, UnreadablePieces)

C3_Witness ==
    /\ called /\ ~in_ok /\ NameHasEb /\ NameHasEdb
    /\ out_step.category = "EDB"
    /\ out_step.reason = <<"filename_contains:edb", " | ">> \o in_reason

\* C4: a filename with 'eb' and a code, but no 'edb', phrase or abbreviation,
\* and no code found on a readable first page, gives EDB with the reason of
\* rule 4 (its readable or its unreadable form), never NDC.
C4_EbBeforeCodeInName ==
    (called /\ NameHasEb /\ NameHasNdc /\ ~NameHasEdb /\ ~NameHasPhrase
        /\ ~NameHasAbbrev /\ ~(in_ok /\ TextHasNdc)) =>
        out_classify =
            Result("EDB",
                   IF in_ok THEN <<"filename_contains:eb AND no_ndc_on_first_page">>
                   ELSE <<"filename_contains:eb AND content_unreadable">>)

C4_Witness ==
    /\ called /\ NameHasEb /\ NameHasNdc /\ ~NameHasEdb /\ ~NameHasPhrase
    /\ ~NameHasAbbrev /\ in_ok /\ ~TextHasNdc /\ TextHasPhrase
    /\ out_classify.category = "EDB"

\* C5: for an unreadable document whose filename holds a code and none of 'edb',
\* an EDB phrase, the abbreviation or 'eb', the result is NDC, the reason is the
\* code matched in the filename tagged source:filename, and the reason of the
\* classification step ends with the unreadability cause.
C5_CodeInNameUnreadable ==
    (called /\ ~in_ok /\ NameHasNdc /\ ~NameHasEdb /\ ~NameHasPhrase
        /\ ~NameHasAbbrev /\ ~NameHasEb) =>
        LET rsn == <<"pattern:", Str(NdcGroup0(NameStr)), " source:filename">>
        IN  /\ out_classify = Result("NDC", rsn)
            /\ out_step = Result("NDC", rsn \o <<" | ">> \o in_reason)
            /\ Mentions(out_step.reason, {"content_unreadable:"})

C5_Witness ==
    /\ called /\ ~in_ok /\ NameHasNdc /\ ~NameHasEdb /\ ~NameHasPhrase
    /\ ~NameHasAbbrev /\ ~NameHasEb
    /\ NdcGroup0(NameStr) # NameStr
    /\ out_step.category = "NDC"

\* C6: when no rule on the filename fires and the first page holds no code but,
\* once normalised, one of the EDB phrases, a readable document gives EDB with
\* the reason naming the phrase found on the first page; an unreadable one does
\* not give EDB.
C6_PhraseOnFirstPage ==
    (called /\ ~NameHasEdb /\ ~NameHasPhrase /\ ~NameHasAbbrev /\ ~NameHasEb
        /\ ~NameHasNdc /\ ~TextHasNdc /\ TextHasPhrase) =>
        IF in_ok
        THEN out_classify =
                 Result("EDB", <<"contains_first_page:'",
                                 Str(EDB_TOKENS[FirstToken(Normalize(in_text))]), "'">>)
        ELSE out_classify.category # "EDB"

C6_Witness ==
    /\ called /\ ~NameHasEdb /\ ~NameHasPhrase /\ ~NameHasAbbrev /\ ~NameHasEb
    /\ ~NameHasNdc /\ ~TextHasNdc /\ TextHasPhrase /\ in_ok
    /\ NameStr # <<>>
    /\ ~Contains(TextStr, EDB_TOKENS[1])
    /\ out_classify.category = "EDB"

\* No rule of 1-6 fires on the inputs of the call
NoRuleFires ==
    /\ ~(in_ok /\ TextHasNdc)
    /\ ~NameHasEdb
    /\ ~NameHasPhrase /\ ~NameHasAbbrev
    /\ ~NameHasEb
    /\ ~NameHasNdc
    /\ ~(in_ok /\ TextHasPhrase)

\* C7: classify returns one of the three categories; it returns AUTRES exactly
\* when none of rules 1-6 fires, then with an empty reason, and an EDB or NDC
\* result has a non-empty reason; empty and missing inputs included.
C7_OthersIsComplement ==
    called =>
        /\ out_classify.category \in {"EDB", "NDC", "AUTRES"}
        /\ (out_classify.category = "AUTRES") <=> NoRuleFires
        /\ (out_classify.category = "AUTRES") => out_classify.reason = <<>>
        /\ (out_classify.category \in {"EDB", "NDC"}) => out_classify.reason # <<>>

C7_Witness ==
    /\ called /\ in_name = NoneVal /\ in_text = NoneVal
    /\ out_classify = Result("AUTRES", <<>>)

\* C9: for an unreadable document the result of classify is the same for every
\* first-page text: the result for any text of Texts, None included, is the
\* result for the empty text, so the results for any two texts are equal.
C9_TextIgnoredWhenUnreadable ==
    (called /\ ~in_ok) => out_classify = classify(<<>>, in_name, FALSE)

C9_Witness ==
    /\ called /\ ~in_ok /\ TextHasNdc /\ TextHasPhrase
    /\ out_classify.category = "AUTRES"

-----------------------------------------------------------------------------
(* Properties of a run of main (Spec)                                        *)

\* C8: every recorded document whose extraction failed has the unreadability
\* cause in its recorded reason.
C8_FaultAlwaysVisible ==
    \A k \in 1..Len(records) :
        candidates[k].open # "ok" =>
            Mentions(records[k].reason, {"content_unreadable:", "content_unreadable"})

\* C10: the documents before the current one have one record each, in order;
\* main is in the loop, or has ended after the last candidate with a record for
\* every candidate, whatever faults the documents met; the report written holds
\* these records.
C10_OneRecordPerDocument ==
    mode = "main" =>
        /\ Len(records) = i - 1
        /\ i <= Len(candidates) + 1
        /\ \A k \in 1..Len(records) :
               /\ records[k].original_path = PathStr(candidates[k])
               /\ records[k].filename = candidates[k].name
        /\ pc \in {"done", "failed"} => Len(records) = Len(candidates)
        /\ pc = "done" => report = records
        /\ pc \in {"loop", "debug", "classify", "copy", "done", "failed"}

C10_Witness ==
    /\ pc = "done" /\ Len(candidates) = 2
    /\ debug_first_pages /\ debug_files = {}
    /\ candidates[1].open = "ok" /\ candidates[2].open # "ok"
    /\ report[1].classification = "ERREUR"
    /\ report[2].classification = "ERREUR"

\* C11: every record of main holds one of the three categories EDB, NDC and
\* AUTRES as its classification.
C11_CategoryIsOneOfThree ==
    \A k \in 1..Len(records) :
        records[k].classification \in {"EDB", "NDC", "AUTRES"}

\* The (category, reason) of a document classified alone: lines 336-357 on this
\* document, from locals just reset
AloneResult(d) ==
    IF d.open = "ok"
    THEN ClassifyDocument(extract_first_page_text(d.tree, char_limit), d.name,
                          TRUE, <<>>)
    ELSE ClassifyDocument(<<>>, d.name, FALSE, Unreadable(d.open))

\* C12: the category and reason main computes for a document, and records for
\* it when its copy did not fail, are those of classifying this document alone,
\* whatever documents were processed before it; a record of a failed copy holds
\* the exception of this copy only.  (Records are only ever appended, so the
\* newest record is the one to look at, when main is back at the loop head.)
C12_NoOrderingDependency ==
    mode = "main" =>
        /\ pc = "copy" =>
               Result(classification, reason) = AloneResult(candidates[i])
        /\ (pc = "loop" /\ records # <<>>) =>
               LET k == Len(records)
               IN  IF records[k].classification = "ERREUR"
                   THEN records[k].reason[1] = "exception:"
                   ELSE Result(records[k].classification, records[k].reason)
                            = AloneResult(candidates[k])

C12_Witness ==
    /\ pc = "copy" /\ i = 2
    /\ candidates[1].open # "ok" /\ candidates[2].open = "ok"
    /\ Mentions(records[1].reason, {"content_unreadable:"})
    /\ ~Mentions(reason, {"content_unreadable:", "content_unreadable"})
    /\ classification = "NDC"

\* The folder the filename rules alone choose for a document
NameFolder(d) == TargetDir(classify(<<>>, d.name, FALSE).category)

-----------------------------------------------------------------------------
(* Properties of the normaliser and of the matchers (SpecMatch)              *)

\* The string without its diacritics
Plain(s) ==
    LET base(c) == IF c = E_ACUTE THEN "E" ELSE IF c = e_acute THEN "e" ELSE c
        kept    == SelectSeq(s, LAMBDA c : c # COMBINING_ACUTE)
    IN  [k \in 1..Len(kept) |-> base(kept[k])]

W_EXPRESSION_ACUTE == <<E_ACUTE,"X","P","R","E","S","S","I","O","N">>

W_expression == <<"e","x","p","r","e","s","s","i","o","n">>

\* C14: normalising a normalised string changes nothing, and the string, the
\* string in lower case, the string in upper case and the string without its
\* diacritics all normalise to the same result; the normal form of
\* 'EXPRESSION' with an acute on its first letter is 'expression'.
C14_NormaliserIdempotent ==
    m_done =>
        /\ m_out.norm = Normalize(MText)
        /\ Normalize(m_out.norm) = m_out.norm
        /\ Normalize(Lower(MText)) = m_out.norm
        /\ Normalize(Upper(MText)) = m_out.norm
        /\ Normalize(Plain(MText)) = m_out.norm
        /\ Normalize(Upper(Plain(MText))) = m_out.norm
        /\ Normalize(W_EXPRESSION_ACUTE) = Normalize(W_expression)
        /\ Normalize(W_expression) = W_expression

C14_Witness ==
    /\ m_done /\ m_arg.kind = "edb"
    /\ m_arg.parts[2] = W_EXPRESSION_ACUTE
    /\ m_out.norm # MText
    /\ m_out.norm # Lower(MText)
    /\ Contains(m_out.norm, W_expression)

\* The separators, the whitespace and the alphanumeric characters the claims
\* on the NDC matcher name
SEPARATORS == {" ", "_", "-", "<U+2011>", "<U+2012>", "<U+2013>", "<U+2014>"}

WHITESPACE == {" ", "\t", "\n"}

ALNUM == UpperSet \cup LowerSet \cup DigitSet

AllIn(s, S) == \A k \in 1..Len(s) : s[k] \in S

\* A client token in any letter case with whitespace between its letters
IsClientSpelling(x) ==
    /\ x # <<>>
    /\ x[1] \notin WHITESPACE /\ x[Len(x)] \notin WHITESPACE
    /\ Upper(SelectSeq(x, LAMBDA c : c \notin WHITESPACE))
           \in {<<"C","A","P","S">>, <<"A","V","E","M">>}

\* The pieces are a client token, separators, four alphanumeric characters,
\* separators and a code that begins with an alphanumeric character
IsNdcShape(parts) ==
    /\ IsClientSpelling(parts[2])
    /\ AllIn(parts[3], SEPARATORS)
    /\ Len(parts[4]) = 4 /\ AllIn(parts[4], ALNUM)
    /\ AllIn(parts[5], SEPARATORS)
    /\ parts[6] # <<>> /\ parts[6][1] \in ALNUM

NdcExamples ==
    {<<"C","A","P","S","2","0","2","0","-","1","3","2">>,
     <<"C","A","P","S","_","2","0","2","0","_","1","3","2">>,
     <<"C","A","P","S","-","2","0","2","0","-","1","3","2">>,
     <<"C","A","P"," ","S"," ","2","0","2","0"," ","1","3","2">>}

\* C15: a string that holds a client token in any letter case with whitespace
\* between its letters, then separators, four alphanumeric characters,
\* separators and an alphanumeric character is matched by NDC_REGEX, the match
\* beginning at the client token or before it; each of 'CAPS2020-132',
\* 'CAPS_2020_132', 'CAPS-2020-132' and 'CAP S 2020 132' is matched as a whole.
C15_SeparatorTolerant ==
    (m_done /\ m_arg.kind = "ndc") =>
        /\ IsNdcShape(m_arg.parts) =>
               /\ m_out.ndc.found
               /\ m_out.ndc.start <= Len(m_arg.parts[1]) + 1
        /\ MText \in NdcExamples => m_out.ndc.group0 = MText

C15_Witness ==
    /\ m_done /\ m_arg.kind = "ndc"
    /\ IsNdcShape(m_arg.parts)
    /\ m_arg.parts[1] = <<>>
    /\ m_arg.parts[2] = <<"a"," ","V"," ","e"," ","M">>
    /\ m_arg.parts[3] = <<"<U+2012>">>
    /\ m_arg.parts[5] = <<>>
    /\ m_out.ndc.group0 = MText

IsPrefix(a, b) == Len(a) <= Len(b) /\ SubSeq(b, 1, Len(a)) = a

\* C16: when NDC_REGEX matches a string it matches the string followed by any
\* trailing text ('_PF', '-9', a letter, ' x', '.docx'), at the same position,
\* and the substring it then reports begins with the substring reported for
\* the string alone.
C16_NoTrailingAnchor ==
    (m_done /\ m_out.ndc.found) =>
        \A t \in TrailingTexts :
            /\ m_out.ndc_trail[t].found
            /\ m_out.ndc_trail[t].start = m_out.ndc.start
            /\ IsPrefix(m_out.ndc.group0, m_out.ndc_trail[t].group0)

C16_Witness ==
    /\ m_done
    /\ MText = <<"C","A","P","S","_","2","0","2","0","_","1","3","2">>
    /\ m_out.ndc_trail[<<"_","P","F">>].group0 = MText \o <<"_","P","F">>
    /\ m_out.ndc_trail[<<" ","x">>].group0 = MText

\* C17: the match NDC_REGEX reports never begins immediately after a word
\* character (a letter, a digit or an underscore).
C17_NoMatchAfterWordChar ==
    (m_done /\ m_out.ndc.found) =>
        \/ m_out.ndc.start = 1
        \/ MText[m_out.ndc.start - 1] \notin ALNUM \cup {"_", E_ACUTE, e_acute}

\* The characters that may stand between the tokens of the abbreviation
FREE_SEPARATORS == {" ", "_", "-", "."}

\* The pieces are 'expr' or 'expression' in any case and accents, separators,
\* an optional 'de' and separators, and 'besoin' or 'besoins'
IsAbbrevShape(parts) ==
    /\ Lower(Plain(parts[2])) \in {<<"e","x","p","r">>, W_expression}
    /\ AllIn(parts[3], FREE_SEPARATORS)
    /\ Lower(parts[4]) \in {<<>>, <<"d","e">>}
    /\ AllIn(parts[5], FREE_SEPARATORS)
    /\ Lower(parts[6]) \in {<<"b","e","s","o","i","n">>,
                            <<"b","e","s","o","i","n","s">>}

\* C18: a filename that holds, anywhere in it, 'expr' or 'expression', an
\* optional 'de' and 'besoin' or 'besoins', with separators between them, is
\* classified EDB when the first page holds no NDC code.
C18_AbbrevAnywhere ==
    (m_done /\ m_arg.kind = "edb" /\ IsAbbrevShape(m_arg.parts)) =>
        m_out.as_name.category = "EDB"

\* The phrases of EDB_TOKENS a normalised text holds
PhrasesIn(norm) == {k \in 1..Len(EDB_TOKENS) : Contains(norm, EDB_TOKENS[k])}

\* The phrase a reason <<tag, phrase, "'">> names
NamesPhrase(rsn, tag, norm) ==
    /\ Len(rsn) = 3 /\ rsn[1] = tag /\ rsn[3] = "'"
    /\ \E k \in PhrasesIn(norm) : rsn[2] = Str(EDB_TOKENS[k])

\* C19: the phrase detections of the first page and of the filename answer true
\* exactly when the normalised text holds one of the three phrases of
\* EDB_TOKENS; the answer and the reason are the same for the text in lower
\* case, in upper case and without its diacritics; when the answer is true the
\* reason names a phrase the normalised text holds.
C19_LiteralPhraseCheck ==
    m_done =>
        LET norm == Lower(Plain(MText))
        IN  /\ m_out.edb_page.found <=> PhrasesIn(norm) # {}
            /\ m_out.edb_name.found <=> PhrasesIn(norm) # {}
            /\ \A t \in {Lower(MText), Upper(MText), Plain(MText), Upper(Plain(MText))} :
                   /\ detect_edb_in_first_page(t) = m_out.edb_page
                   /\ detect_edb_phrases_in_filename(t) = m_out.edb_name
            /\ m_out.edb_page.found =>
                   NamesPhrase(m_out.edb_page.reason, "contains_first_page:'", norm)
            /\ m_out.edb_name.found =>
                   NamesPhrase(m_out.edb_name.reason, "filename_contains_phrase:'", norm)
            /\ ~m_out.edb_page.found => m_out.edb_page.reason = <<>>

C19_Witness ==
    /\ m_done /\ m_arg.kind = "edb"
    /\ m_arg.parts[2] = <<"E","x","p","r","e",COMBINING_ACUTE,"s","s","i","o","n","s">>
    /\ m_out.edb_page.found
    /\ m_out.edb_page.reason[2] = "expressions de besoins"
    /\ ~Contains(MText, EDB_TOKENS[3])

-----------------------------------------------------------------------------
(* Properties of the first-page extractor (SpecExtract)                      *)

\* The texts a body child adds: its runs, then its text boxes
NodeParts(node, with_boxes) ==
    LET txt == IF node.tag \in {"p", "tbl"}
               THEN Join(NonEmpty(node.runs), NEWLINE) ELSE <<>>
        tx  == Join(NonEmpty([j \in 1..Len(node.txbx) |->
                                 Join(NonEmpty(node.txbx[j]), NEWLINE)]), NEWLINE)
    IN  (IF txt # <<>> THEN <<txt>> ELSE <<>>)
            \o (IF with_boxes /\ tx # <<>> THEN <<tx>> ELSE <<>>)

\* The header/footer text and the texts of the first k body children
RECURSIVE PartsThrough(_, _)
PartsThrough(doc, k) ==
    IF k = 0
    THEN (IF NonEmpty(doc.hf) # <<>> THEN <<Join(NonEmpty(doc.hf), NEWLINE)>>
          ELSE <<>>)
    ELSE PartsThrough(doc, k - 1) \o NodeParts(doc.body[k], TRUE)

PageBreaks(doc) ==
    {k \in 1..Len(doc.body) : doc.body[k].tag = "p" /\ doc.body[k].brk}

\* The paragraphs with a page break that the traversal reaches: no page break
\* and no exhausted budget before them
BreaksReached(doc, limit) ==
    {k \in PageBreaks(doc) :
        \A j \in 1..(k - 1) :
            /\ j \notin PageBreaks(doc)
            /\ SumLen(PartsThrough(doc, j)) < limit}

\* C20 as stated: the text returned never has more than char_limit characters.
C20_AlwaysBounded ==
    x_done => Len(x_out) <= x_limit

\* C20, amended: when the traversal ends at the end of the body or on the
\* budget the text returned has at most char_limit characters; when it ends on
\* a page break the text returned is the whole text accumulated up to the
\* paragraph of the break, this paragraph's own text included, whatever its
\* length.
C20_BoundedUnlessPageBreak ==
    x_done =>
        IF BreaksReached(x_doc, x_limit) = {}
        THEN Len(x_out) <= x_limit
        ELSE \A k \in BreaksReached(x_doc, x_limit) :
                 x_out = Join(PartsThrough(x_doc, k - 1)
                                  \o NodeParts(x_doc.body[k], FALSE), NEWLINE)

C20_Witness ==
    /\ x_done
    /\ BreaksReached(x_doc, x_limit) = {2}
    /\ x_doc.hf # <<>>
    /\ Len(x_out) > x_limit
    /\ x_limit > 0

\* The whole text of a document: header/footer first, then every body child
FullText(doc) == Join(PartsThrough(doc, Len(doc.body)), NEWLINE)

\* C21: a document without a page break whose whole text is longer than
\* char_limit yields exactly the first char_limit characters of this text.
C21_ExactTruncation ==
    (x_done /\ PageBreaks(x_doc) = {} /\ Len(FullText(x_doc)) > x_limit) =>
        x_out = SubSeq(FullText(x_doc), 1, x_limit)

\* The header and footer text of the first section
HfText(doc) == Join(NonEmpty(doc.hf), NEWLINE)

\* C22: the whole header/footer text stands at the start of the text returned.
C22_HeaderFooterKept ==
    x_done => IsPrefix(HfText(x_doc), x_out)

\* C22, amended: the header/footer text stands at the start of the text
\* returned, before any body text and whatever the amount of body text; it is
\* whole when it has at most char_limit characters or when the traversal ends
\* on a page break, and otherwise the text returned is its first char_limit
\* characters.
C22_HeaderFooterFirst ==
    x_done =>
        IF Len(HfText(x_doc)) <= x_limit \/ BreaksReached(x_doc, x_limit) # {}
        THEN IsPrefix(HfText(x_doc), x_out)
        ELSE x_out = SubSeq(HfText(x_doc), 1, x_limit)

C22_Witness ==
    /\ x_done
    /\ HfText(x_doc) # <<>> /\ Len(HfText(x_doc)) <= x_limit
    /\ Len(x_doc.body) = MaxNodes
    /\ PageBreaks(x_doc) = {}
    /\ Len(FullText(x_doc)) > x_limit
    /\ IsPrefix(HfText(x_doc), x_out) /\ x_out # HfText(x_doc)

\* The document without the body children after child k
CutAfter(doc, k) == [doc EXCEPT !.body = SubSeq(doc.body, 1, k)]

IsSuffix(a, b) == Len(a) <= Len(b) /\ SubSeq(b, Len(b) - Len(a) + 1, Len(b)) = a

\* C23: when the traversal reaches a paragraph with a page break, the text
\* returned ends with the text of this paragraph and is the text the document
\* without the body children that follow it yields under the default limit: no
\* text of a later child is in it, and char_limit has no influence on it.
C23_StopsAtFirstPageBreak ==
    x_done =>
        \A k \in BreaksReached(x_doc, x_limit) :
            /\ IsSuffix(Join(NonEmpty(x_doc.body[k].runs), NEWLINE), x_out)
            /\ x_out = extract_first_page_text(CutAfter(x_doc, k),
                                               DEFAULT_FIRST_PAGE_CHAR_LIMIT)

C23_Witness ==
    /\ x_done
    /\ BreaksReached(x_doc, x_limit) = {2}
    /\ Len(x_doc.body) = 3
    /\ x_doc.body[2].runs # <<>>
    /\ x_doc.body[3].tag = "tbl"
    /\ Len(x_out) > x_limit
    /\ x_out # FullText(x_doc)

-----------------------------------------------------------------------------
(* Properties of the first-page extractor under a fault (SpecExtractFault)   *)

\* The document without the sub-parts whose reading raised: the header/footer
\* texts not read, the texts, page break or text boxes of a failed query
WithoutFailedParts(doc) ==
    [hf      |-> SubSeq(doc.hf, 1, doc.hf_read),
     hf_read |-> doc.hf_read,
     body    |-> [k \in 1..Len(doc.body) |->
                    LET n == doc.body[k]
                    IN  [tag    |-> n.tag,
                         runs   |-> IF "t" \in n.faults THEN <<>> ELSE n.runs,
                         brk    |-> n.brk /\ "br" \notin n.faults,
                         txbx   |-> IF "txbx" \in n.faults THEN <<>> ELSE n.txbx,
                         faults |-> {}]]]

-----------------------------------------------------------------------------
(* Properties of the extraction of a paragraph made of several runs          *)
(* (SpecMatch)                                                                *)

\* C27: a code or a phrase is found in the text extracted from a paragraph
\* whose runs are the pieces of a string exactly when it is found in the
\* string itself, with the same reason.
C27_RunsJoinedWithoutSeparator ==
    m_done =>
        /\ m_out.page_ndc = detect_ndc_in_first_page(MText)
        /\ m_out.page_edb = m_out.edb_page


\* C28: a filename that contains 'eb' in any letter case is never classified
\* AUTRES, and is classified NDC only by rule 1, that is for a readable
\* document with a code on its first page and with the first-page reason;
\* otherwise it is EDB by one of rules 2, 3 and 4, so the reasons of rule 5
\* (tagged source:filename) and of rule 6 (first_page_contains) never occur.
C28_EbNameNeverOthers ==
    (called /\ NameHasEb) =>
        /\ out_classify.category \in {"NDC", "EDB"}
        /\ out_classify.category = "NDC" =>
              /\ in_ok /\ TextHasNdc
              /\ out_classify.reason = detect_ndc_in_first_page(in_text).reason
              /\ Mentions(out_classify.reason, {" source:first_page"})
        /\ out_classify.category = "EDB" =>
              /\ ~(in_ok /\ TextHasNdc)
              /\ out_classify.reason \in
                    {<<"filename_contains:edb">>,
                     detect_edb_phrases_in_filename(in_name).reason,
                     detect_edb_abbrev_in_filename(in_name).reason,
                     <<"filename_contains:eb AND no_ndc_on_first_page">>,
                     <<"filename_contains:eb AND content_unreadable">>}
              /\ out_classify.reason # <<>>
        /\ ~Mentions(out_classify.reason, {" source:filename"})
        /\ out_classify.reason # detect_edb_in_first_page(in_text).reason

\* An upper-case 'Eb' in a name that also holds a code, for a document that
\* cannot be read and whose text holds a phrase: rules 5 and 6 would both fire
C28_Witness ==
    /\ called /\ NameHasEb /\ ~Contains(NameStr, <<"e","b">>)
    /\ NameHasNdc /\ ~in_ok /\ TextHasPhrase
    /\ out_classify = Result("EDB", <<"filename_contains:eb AND content_unreadable">>)


\* C29: under the policies 'skip' and 'suffix' no step of the run removes or
\* replaces a file that is in an output folder, whatever the order and the
\* times of the copies; and under 'skip' a call of safe_copy whose destination
\* exists leaves the folders as they are and returns 'skipped_existing'.
C29_NoFileOverwritten ==
    [][(mode = "main" /\ on_exists \in {"skip", "suffix"}) =>
          /\ dest_files \subseteq dest_files'
          /\ (on_exists = "skip" /\ CopyOk
                /\ TargetDir(classification) # "none"
                /\ Exists(dest_files, TargetDir(classification),
                          candidates[i].name)) =>
                 /\ dest_files' = dest_files
                 /\ copy_status' = "skipped_existing"]_vars

-----------------------------------------------------------------------------
(* Deduplication (src/dedupe.py).  A file of the source folder is           *)
(* [name |-> its name, mtime |-> its st_mtime]; a file of the folder        *)
(* 'dedupe' is [name |-> its name, src |-> the name of the file copied      *)
(* there].                                                                  *)

MaxFiles == 3

MaxMtime == 2

W_DOC == <<".","d","o","c">>

W_PDF == <<".","p","d","f">>

ALLOW == {W_PDF, W_DOC, W_DOCX}

\* TS_SUFFIX_RE, line 39, applied to a stem; "d" stands for \d
TS_SUFFIX_RE ==
    <<"_","d","d","d","d","d","d","d","d","_","d","d","d","d","d","d">>

RECURSIVE LStrip(_)
LStrip(s) == IF s # <<>> /\ IsSpace(Head(s)) THEN LStrip(Tail(s)) ELSE s

Reverse(s) == [k \in 1..Len(s) |-> s[Len(s) + 1 - k]]

\* str.strip()
Strip(s) == Reverse(LStrip(Reverse(LStrip(s))))

\* Whether TS_SUFFIX_RE matches at the end of the stem
MatchesTsSuffix(stem) ==
    /\ Len(stem) >= Len(TS_SUFFIX_RE)
    /\ \A k \in 1..Len(TS_SUFFIX_RE) :
          LET c == stem[Len(stem) - Len(TS_SUFFIX_RE) + k]
          IN  IF TS_SUFFIX_RE[k] = "d" THEN c \in DigitSet
              ELSE c = TS_SUFFIX_RE[k]

\* normalized_key(p), lines 42-46, on the name of p
normalized_key(name) ==
    LET stem == Lower(Strip(Stem(name)))
    IN  IF MatchesTsSuffix(stem)
        THEN SubSeq(stem, 1, Len(stem) - Len(TS_SUFFIX_RE))
        ELSE stem

\* Mutant: any file of the list
pick_most_recent_Any(paths) == paths

\* pick_most_recent(paths), lines 49-51: the files max() can return; among
\* files of equal mtime it returns the first of the list, whose order is that
\* of iterdir().
pick_most_recent(paths) == {p \in paths : \A q \in paths : q.mtime <= p.mtime}

\* p.suffix.lower()
Ext(p) == Lower(Suffix(p.name))

\* Line 90: the files of the folder with an allowed extension
Listed(files) == {p \in files : Ext(p) \in ALLOW}

\* Lines 97-99: the keys of groups and the group of a key
Keys(files) == {normalized_key(p.name) : p \in files}

Group(files, key) == {p \in files : normalized_key(p.name) = key}

\* Lines 106-108
OfType(paths, ext) == {p \in paths : Ext(p) = ext}

\* Lines 110-121: the files the group's `chosen` can be
Choosable(paths) ==
    IF OfType(paths, W_DOCX) # {} THEN pick_most_recent(OfType(paths, W_DOCX))
    ELSE IF OfType(paths, W_DOC) # {} THEN pick_most_recent(OfType(paths, W_DOC))
    ELSE pick_most_recent(OfType(paths, W_PDF))

rule_reason(paths) ==
    IF OfType(paths, W_DOCX) # {}
    THEN "DOCX prioritaire (Word > PDF). Autres ignor<U+00E9>s."
    ELSE IF OfType(paths, W_DOC) # {}
    THEN "DOC conserv<U+00E9> (pas de DOCX). PDF ignor<U+00E9>s."
    ELSE "PDF seul <U+2192> conserv<U+00E9> (aucun Word)."

\* Lines 130-161: the row of file p of a group
Row(p, paths, chosen, key) ==
    [name   |-> p.name,
     ext    |-> Tail(Ext(p)),
     group  |-> key,
     action |-> IF p = chosen THEN "conserver" ELSE "ignorer",
     reason |->
        IF p = chosen
        THEN IF Cardinality(OfType(paths, Ext(p))) > 1
             THEN "Conserv<U+00E9> (plus r<U+00E9>cent parmi les <ext>)"
             ELSE rule_reason(paths)
        ELSE IF Ext(p) = W_PDF
                /\ (OfType(paths, W_DOCX) # {} \/ OfType(paths, W_DOC) # {})
             THEN "PDF ignor<U+00E9> (Word pr<U+00E9>sent)"
        ELSE IF Ext(p) = W_DOC /\ OfType(paths, W_DOCX) # {}
             THEN "DOC ignor<U+00E9> (DOCX pr<U+00E9>sent)"
        ELSE "Ignor<U+00E9> (moins r<U+00E9>cent que celui conserv<U+00E9>)",
     source |-> p.name,
     dest   |-> IF p = chosen THEN p.name ELSE <<>>]

\* Lines 104-127: the ways of choosing one file in each group
Choices(files) ==
    {ch \in [Keys(files) -> files] :
        \A k \in Keys(files) : ch[k] \in Choosable(Group(files, k))}

\* Lines 101-161: the rows for one way of choosing
Rows(files, ch) ==
    {Row(p, Group(files, normalized_key(p.name)), ch[normalized_key(p.name)],
         normalized_key(p.name)) : p \in files}

\* sorted(keep_set), line 178
RECURSIVE SortedNames(_)
SortedNames(S) ==
    IF S = {} THEN <<>>
    ELSE LET m == CHOOSE a \in S : \A b \in S : StrLeq(a, b)
         IN  <<m>> \o SortedNames(S \ {m})

\* safe_copy(src, dest_dir) of dedupe.py, lines 54-65, the time read being t:
\* the files of the folder afterwards
dedupe_safe_copy(dest, name, t) ==
    LET target == IF \E f \in dest : f.name = name
                  THEN Stem(name) \o <<"_">> \o Timestamp(t) \o Suffix(name)
                  ELSE name
    IN  {f \in dest : f.name # target} \cup {[name |-> target, src |-> name]}

\* The names of the files a source folder can hold
FileNames ==
    {<<"a">> \o W_DOCX,
     <<"A","_","2","0","2","4","0","1","0","1","_","1","2","0","0","0","0",
       ".","D","O","C","X">>,
     <<"a"," ">> \o W_DOC,
     <<"a">> \o W_PDF,
     <<"b">> \o W_PDF,
     <<"b","_","2","0","2","4","0","1","0","_","1","2","0","0","0","0">> \o W_PDF,
     <<"a",".","t","x","t">>}

\* The folders: at most MaxFiles files, of distinct names
Folders ==
    UNION {{ {[name |-> n, mtime |-> f[n]] : n \in S} : f \in [S -> 1..MaxMtime] } :
             S \in {T \in SUBSET FileNames : Cardinality(T) <= MaxFiles}}

\* What an earlier run left in the folder 'dedupe'
OldDedupe == {[name |-> <<"a">> \o W_DOCX, src |-> <<"old">>]}

InitDedupe ==
    /\ ConvertIdle
    /\ mode = "dedupe"
    /\ in_text = <<>> /\ in_name = <<>> /\ in_ok = TRUE /\ in_reason = <<>>
    /\ called = FALSE /\ out_classify = NoCall /\ out_step = NoCall
    /\ MainIdle
    /\ MatchIdle
    /\ ExtractIdle
    /\ d_src \in {NoDir} \cup {[ok |-> TRUE, files |-> F] : F \in Folders}
    /\ d_dry \in BOOLEAN
    /\ d_pc = "start"
    /\ d_rows = {} /\ d_keep = {} /\ d_report = NoRows
    /\ \/ d_dir = FALSE /\ d_dest = {}
       \/ d_dir = TRUE /\ d_dest = OldDedupe
    /\ d_todo = <<>>
    /\ d_now = 0

othersVars == <<convertVars, mode, callVars, argVars, pc, i, localVars, records,
                dest_files, debug_files, now, report, matchVars, extractVars>>

\* Lines 80-83: the source folder is not a folder, sys.exit(1)
DedupeInvalidSource ==
    /\ mode = "dedupe" /\ d_pc = "start"
    /\ ~d_src.ok
    /\ d_pc' = "exit"
    /\ UNCHANGED <<othersVars, d_src, d_dry, d_rows, d_keep, d_report, d_dir,
                   d_dest, d_todo, d_now>>

\* Lines 90-94: no file to deduplicate, sys.exit(0)
DedupeNoFiles ==
    /\ mode = "dedupe" /\ d_pc = "start"
    /\ d_src.ok /\ Listed(d_src.files) = {}
    /\ d_pc' = "exit"
    /\ UNCHANGED <<othersVars, d_src, d_dry, d_rows, d_keep, d_report, d_dir,
                   d_dest, d_todo, d_now>>

\* Mutant: a report that cannot be written is passed over
DedupeReportFail_Continues ==
    /\ mode = "dedupe" /\ d_pc = "start"
    /\ d_src.ok /\ Listed(d_src.files) # {}
    /\ \E ch \in Choices(Listed(d_src.files)) :
          /\ d_rows' = Rows(Listed(d_src.files), ch)
          /\ d_keep' = {ch[k].name : k \in DOMAIN ch}
    /\ d_pc' = "report_written"
    /\ UNCHANGED <<othersVars, d_src, d_dry, d_report, d_dir, d_dest, d_todo,
                   d_now>>

\* Lines 90-170 when the Excel report cannot be written: the exception ends
\* the program
DedupeReportFail ==
    /\ mode = "dedupe" /\ d_pc = "start"
    /\ d_src.ok /\ Listed(d_src.files) # {}
    /\ \E ch \in Choices(Listed(d_src.files)) :
          /\ d_rows' = Rows(Listed(d_src.files), ch)
          /\ d_keep' = {ch[k].name : k \in DOMAIN ch}
    /\ d_pc' = "crashed"
    /\ UNCHANGED <<othersVars, d_src, d_dry, d_report, d_dir, d_dest, d_todo,
                   d_now>>

\* Lines 90-172: the groups, the choice in each group, the rows, and the
\* Excel report written
DedupeReport ==
    /\ mode = "dedupe" /\ d_pc = "start"
    /\ d_src.ok /\ Listed(d_src.files) # {}
    /\ \E ch \in Choices(Listed(d_src.files)) :
          /\ d_rows' = Rows(Listed(d_src.files), ch)
          /\ d_keep' = {ch[k].name : k \in DOMAIN ch}
    /\ d_report' = [written |-> TRUE, rows |-> d_rows']
    /\ d_pc' = "report_written"
    /\ UNCHANGED <<othersVars, d_src, d_dry, d_dir, d_dest, d_todo, d_now>>

\* Lines 182-185: --dry-run
DedupeDryRun ==
    /\ mode = "dedupe" /\ d_pc = "report_written"
    /\ d_dry
    /\ d_pc' = "done"
    /\ UNCHANGED <<othersVars, d_src, d_dry, d_rows, d_keep, d_report, d_dir,
                   d_dest, d_todo, d_now>>

\* Lines 175-178: the folder is created and the loop entered
DedupeMkdir ==
    /\ mode = "dedupe" /\ d_pc = "report_written"
    /\ ~d_dry
    /\ d_dir' = TRUE
    /\ d_todo' = SortedNames(d_keep)
    /\ d_pc' = "copy"
    /\ UNCHANGED <<othersVars, d_src, d_dry, d_rows, d_keep, d_report, d_dest,
                   d_now>>

\* Lines 178-180: one copy
DedupeCopy ==
    /\ mode = "dedupe" /\ d_pc = "copy"
    /\ d_todo # <<>>
    /\ \E t \in d_now..MaxClock :
          /\ d_dest' = dedupe_safe_copy(d_dest, Head(d_todo), t)
          /\ d_now' = IF \E f \in d_dest : f.name = Head(d_todo) THEN t ELSE d_now
    /\ d_todo' = Tail(d_todo)
    /\ UNCHANGED <<othersVars, d_src, d_dry, d_pc, d_rows, d_keep, d_report, d_dir>>

\* Lines 178-180 when a copy raises: the exception ends the program
DedupeCopyFail ==
    /\ mode = "dedupe" /\ d_pc = "copy"
    /\ d_todo # <<>>
    /\ d_pc' = "crashed"
    /\ UNCHANGED <<othersVars, d_src, d_dry, d_rows, d_keep, d_report, d_dir,
                   d_dest, d_todo, d_now>>

\* Lines 181-185: the end of the loop
DedupeDone ==
    /\ mode = "dedupe" /\ d_pc = "copy"
    /\ d_todo = <<>>
    /\ d_pc' = "done"
    /\ UNCHANGED <<othersVars, d_src, d_dry, d_rows, d_keep, d_report, d_dir,
                   d_dest, d_todo, d_now>>

NextDedupe ==
    \/ DedupeInvalidSource
    \/ DedupeNoFiles
    \/ DedupeReport
    \/ DedupeReportFail
    \/ DedupeDryRun
    \/ DedupeMkdir
    \/ DedupeCopy
    \/ DedupeCopyFail
    \/ DedupeDone

SpecDedupe == InitDedupe /\ [][NextDedupe]_vars

-----------------------------------------------------------------------------
(* Properties of the deduplication (SpecDedupe) *)

\* The normalised stem of each name of FileNames, written out: the stem in
\* lower case, trimmed, without a final _YYYYMMDD_HHMMSS
ExpectedKey(name) ==
    IF name = <<"b">> \o W_PDF THEN <<"b">>
    ELSE IF Len(name) > 1 /\ name[2] = "_" /\ Head(name) = "b"
    THEN <<"b","_","2","0","2","4","0","1","0","_","1","2","0","0","0","0">>
    ELSE <<"a">>

RowOf(name) == CHOOSE r \in d_report.rows : r.name = name

\* C25: in the report, each group of files of the same normalised stem has
\* exactly one file marked 'conserver': a .docx if the group has one,
\* otherwise a .doc if it has one, otherwise a .pdf, and none of the group's
\* files of that extension is more recent; the group's other files are marked
\* 'ignorer'.
C25_OneKeptPerGroup ==
    d_report.written =>
        LET files == {p \in d_src.files : Lower(Suffix(p.name)) \in ALLOW}
        IN  /\ {r.name : r \in d_report.rows} = {p.name : p \in files}
            /\ Cardinality(d_report.rows) = Cardinality(files)
            /\ \A p \in files :
                 LET grp  == {q \in files : ExpectedKey(q.name) = ExpectedKey(p.name)}
                     exts == {Lower(Suffix(q.name)) : q \in grp}
                     best == IF W_DOCX \in exts THEN W_DOCX
                             ELSE IF W_DOC \in exts THEN W_DOC ELSE W_PDF
                     kept == {q \in grp : RowOf(q.name).action = "conserver"}
                 IN  /\ RowOf(p.name).group = ExpectedKey(p.name)
                     /\ Cardinality(kept) = 1
                     /\ \A q \in kept :
                          /\ Lower(Suffix(q.name)) = best
                          /\ \A o \in grp :
                               Lower(Suffix(o.name)) = best => o.mtime <= q.mtime
                     /\ \A q \in grp \ kept : RowOf(q.name).action = "ignorer"

\* A group of three: two .docx, the one with the timestamp and the upper-case
\* name being the more recent, and a .doc with a space before the extension
C25_Witness ==
    /\ d_report.written
    /\ Cardinality(d_src.files) = MaxFiles
    /\ \A p \in d_src.files : ExpectedKey(p.name) = <<"a">> /\ p.name # <<"a",".","t","x","t">>
    /\ \E p, q, r \in d_src.files :
          /\ p.name = <<"a">> \o W_DOCX /\ Suffix(q.name) = <<".","D","O","C","X">>
          /\ p.mtime < q.mtime /\ Suffix(r.name) = W_DOC
          /\ RowOf(q.name).action = "conserver"
          /\ RowOf(p.name).action = "ignorer"
          /\ RowOf(r.name).action = "ignorer"


\* C26: a step that puts a file in the folder 'dedupe', or creates the
\* folder, is taken only after the Excel report has been written and only
\* without --dry-run, and every file it puts there is the copy of a file the
\* report marks 'conserver'.
C26_ReportBeforeCopies ==
    [][(mode = "dedupe" /\ (d_dest' # d_dest \/ d_dir' # d_dir)) =>
          /\ d_report.written
          /\ ~d_dry
          /\ \A f \in d_dest' \ d_dest :
                \E r \in d_report.rows : r.name = f.src /\ r.action = "conserver"]_vars

\* The end of a run that copied two files, one of them beside the file an
\* earlier run left, and ignored a third
C26_Witness ==
    /\ d_pc = "done" /\ ~d_dry /\ d_report.written
    /\ Cardinality({f \in d_dest : f.src # <<"old">>}) = 2
    /\ OldDedupe \subseteq d_dest
    /\ \E f \in d_dest : f.src = <<"a">> \o W_DOCX /\ f.name # f.src
    /\ \E r \in d_report.rows : r.action = "ignorer"

-----------------------------------------------------------------------------
(* Parallel conversion (src/convert_to_docx.py).  The tasks run in worker   *)
(* processes; a step of a task is one access to the destination folder.     *)
(* A task is [src |-> name of the source file, type |-> "DOC", "PDF" or     *)
(* "COPY", pc |-> "queued", "unlink", "write", "returned", "raised" or      *)
(* "collected", how |-> the branch taken, target |-> the name it writes,    *)
(* result |-> the row it returns].                                          *)

MaxSources == 3

MaxWorkers == 2

\* The names of the files the source folder can hold
SourceNames ==
    {<<"a">> \o W_DOC, <<"a">> \o W_PDF, <<"a">> \o W_DOCX,
     <<"b">> \o W_DOC, <<"b">> \o W_PDF}

NoRow == [type |-> "", src |-> <<>>, action |-> "", message |-> "", out |-> <<>>]

\* The dict a task returns
ConvertRow(task, action, message, out) ==
    [type    |-> IF task.type = "DOC" THEN "DOC->DOCX"
                 ELSE IF task.type = "PDF" THEN "PDF->DOCX" ELSE "COPIE DOCX",
     src     |-> task.src,
     action  |-> action,
     message |-> message,
     out     |-> out]

\* Lines 270-272: the files of one extension
OfExt(names, ext) == {n \in names : Lower(Suffix(n)) = ext}

NewTask(name, type) ==
    [src |-> name, type |-> type, pc |-> "queued", how |-> "", target |-> <<>>,
     result |-> NoRow]

\* Lines 293-308: the tasks in the order they are submitted
Submitted(names) ==
    LET docs  == SortedNames(OfExt(names, W_DOC))
        pdfs  == SortedNames(OfExt(names, W_PDF))
        docxs == SortedNames(OfExt(names, W_DOCX))
    IN  [k \in 1..Len(docs) |-> NewTask(docs[k], "DOC")]
            \o [k \in 1..Len(pdfs) |-> NewTask(pdfs[k], "PDF")]
            \o [k \in 1..Len(docxs) |-> NewTask(docxs[k], "COPY")]

\* Lines 88, 136, 205: the output file of a task
Expected(task) ==
    IF task.type = "COPY" THEN task.src ELSE Stem(task.src) \o W_DOCX

\* Lines 107-108, 168-169, 219-220
Suffixed(expected, t) ==
    Stem(expected) \o <<"_">> \o Timestamp(t) \o Suffix(expected)

\* expected.exists()
InDest(dest, name) == \E f \in dest : f.name = name

\* The folder after a file is created or replaced
WriteFile(dest, name, src) ==
    {f \in dest : f.name # name} \cup {[name |-> name, src |-> src]}

\* The tasks that occupy a worker
Running == {k \in 1..Len(c_tasks) : c_tasks[k].pc \in {"unlink", "write"}}

\* A worker takes the next task of the queue
CanStart(k) ==
    /\ mode = "convert" /\ c_pc \in {"pool", "crashed"}
    /\ k \in 1..Len(c_tasks)
    /\ c_tasks[k].pc = "queued"
    /\ \A j \in 1..(k - 1) : c_tasks[j].pc # "queued"
    /\ Cardinality(Running) < c_args.workers

Returned(task, action, message, out) ==
    [task EXCEPT !.pc = "returned",
                 !.result = ConvertRow(task, action, message, out)]

\* Lines 93-95, 152-154, 212-214: the existence test at the start of a task
\* and the branch it selects
Check(task, dest, policy) ==
    IF InDest(dest, Expected(task))
    THEN IF policy = "skip"
         THEN IF task.type = "COPY"
              THEN Returned(task, "copi<U+00E9>", "ignor<U+00E9> (existe d<U+00E9>j<U+00E0>)", <<>>)
              ELSE Returned(task, "ignor<U+00E9>", "existe d<U+00E9>j<U+00E0> (skip)", <<>>)
         ELSE IF policy = "overwrite"
         THEN [task EXCEPT !.pc = IF task.type = "PDF" THEN "unlink" ELSE "write",
                           !.how = "overwrite", !.target = Expected(task)]
         ELSE [task EXCEPT !.pc = "write", !.how = "suffix"]
    ELSE [task EXCEPT !.pc = "write", !.how = "plain", !.target = Expected(task)]

convUnchanged == <<dedupeVars, mode, callVars, argVars, pc, i, localVars, records,
                   dest_files, debug_files, now, report, matchVars, extractVars>>

\* Lines 255-267: the source folder or soffice is missing, sys.exit(1)
ConvertExit ==
    /\ mode = "convert" /\ c_pc = "start"
    /\ c_args.env # "ok"
    /\ c_pc' = "exit"
    /\ UNCHANGED <<convUnchanged, c_args, c_tasks, c_dest, c_writes, c_rows, c_report, c_now>>

\* Lines 255-308: the tasks are submitted to the pool
ConvertSubmit ==
    /\ mode = "convert" /\ c_pc = "start"
    /\ c_args.env = "ok"
    /\ c_tasks' = Submitted(c_args.sources)
    /\ c_pc' = "pool"
    /\ UNCHANGED <<convUnchanged, c_args, c_dest, c_writes, c_rows, c_report, c_now>>

\* process_doc, lines 83-95: the existence test
DocCheck(k) ==
    /\ CanStart(k) /\ c_tasks[k].type = "DOC"
    /\ c_tasks' = [c_tasks EXCEPT ![k] = Check(@, c_dest, c_args.on_exists)]
    /\ UNCHANGED <<convUnchanged, c_args, c_pc, c_dest, c_writes, c_rows, c_report, c_now>>

\* process_doc, lines 97-118: soffice produces the file
DocConvert(k) ==
    /\ mode = "convert" /\ k \in 1..Len(c_tasks)
    /\ c_tasks[k].type = "DOC" /\ c_tasks[k].pc = "write"
    /\ \E t \in c_now..MaxClock :
         LET task   == c_tasks[k]
             suffix == task.how = "suffix"
             final  == IF suffix THEN Suffixed(Expected(task), t) ELSE task.target
         IN  /\ c_dest' = WriteFile(c_dest, final, task.src)
             /\ c_writes' = c_writes \cup {[name |-> final, task |-> k]}
             /\ c_now' = IF suffix THEN t ELSE c_now
             /\ c_tasks' = [c_tasks EXCEPT ![k] =
                   IF suffix
                   THEN Returned([task EXCEPT !.target = final],
                                 "converti (suffix<U+00E9>)", "collision <U+00E9>vit<U+00E9>e", final)
                   ELSE IF task.how = "overwrite"
                   THEN Returned(task, "converti (<U+00E9>cras<U+00E9>)", "overwrite", final)
                   ELSE Returned(task, "converti", "OK", final)]
    /\ UNCHANGED <<convUnchanged, c_args, c_pc, c_rows, c_report>>

\* process_doc, lines 97-118: soffice produces nothing; run_soffice_convert
\* (line 74) still answers whether the expected file exists
DocConvertFail(k) ==
    /\ mode = "convert" /\ k \in 1..Len(c_tasks)
    /\ c_tasks[k].type = "DOC" /\ c_tasks[k].pc = "write"
    /\ LET task == c_tasks[k]
           ok   == task.how # "suffix" /\ InDest(c_dest, Expected(task))
       IN  c_tasks' = [c_tasks EXCEPT ![k] =
               IF ~ok
               THEN Returned(task, "<U+00E9>chec", "conversion <U+00E9>chou<U+00E9>e | <out>", <<>>)
               ELSE IF task.how = "overwrite"
               THEN Returned(task, "converti (<U+00E9>cras<U+00E9>)", "overwrite", Expected(task))
               ELSE Returned(task, "converti", "OK", Expected(task))]
    /\ UNCHANGED <<convUnchanged, c_args, c_pc, c_dest, c_writes, c_rows, c_report, c_now>>

\* process_pdf, lines 132-154, 167-169: the availability of pdf2docx, the
\* existence test and, for 'suffix', the time read
PdfCheck(k) ==
    /\ CanStart(k) /\ c_tasks[k].type = "PDF"
    /\ \E t \in c_now..MaxClock :
         LET task == c_tasks[k]
             c    == Check(task, c_dest, c_args.on_exists)
         IN  IF ~c_args.pdf2docx
             THEN /\ c_tasks' = [c_tasks EXCEPT ![k] =
                        Returned(task, "<U+00E9>chec", "pdf2docx non disponible", <<>>)]
                  /\ c_now' = c_now
             ELSE IF c.how = "suffix"
             THEN /\ c_tasks' = [c_tasks EXCEPT ![k] =
                        [c EXCEPT !.target = Suffixed(Expected(task), t)]]
                  /\ c_now' = t
             ELSE /\ c_tasks' = [c_tasks EXCEPT ![k] = c]
                  /\ c_now' = c_now
    /\ UNCHANGED <<convUnchanged, c_args, c_pc, c_dest, c_writes, c_rows, c_report>>

\* process_pdf, lines 156-159: expected.unlink(), its failure passed over
PdfUnlink(k) ==
    /\ mode = "convert" /\ k \in 1..Len(c_tasks)
    /\ c_tasks[k].type = "PDF" /\ c_tasks[k].pc = "unlink"
    /\ c_dest' = {f \in c_dest : f.name # c_tasks[k].target}
    /\ c_tasks' = [c_tasks EXCEPT ![k].pc = "write"]
    /\ UNCHANGED <<convUnchanged, c_args, c_pc, c_writes, c_rows, c_report, c_now>>

\* process_pdf, lines 160-184: pdf2docx writes the file
PdfConvert(k) ==
    /\ mode = "convert" /\ k \in 1..Len(c_tasks)
    /\ c_tasks[k].type = "PDF" /\ c_tasks[k].pc = "write"
    /\ LET task == c_tasks[k]
       IN  /\ c_dest' = WriteFile(c_dest, task.target, task.src)
           /\ c_writes' = c_writes \cup {[name |-> task.target, task |-> k]}
           /\ c_tasks' = [c_tasks EXCEPT ![k] =
                 Returned(task, "converti",
                          IF task.how = "overwrite" THEN "converti (<U+00E9>cras<U+00E9>)"
                          ELSE IF task.how = "suffix" THEN "converti (suffix<U+00E9>)"
                          ELSE "converti",
                          task.target)]
    /\ UNCHANGED <<convUnchanged, c_args, c_pc, c_rows, c_report, c_now>>

\* process_pdf, lines 160-187: pdf2docx raises, or returns without output
\* (the test of lines 163, 173, 181 then sees the file another task wrote)
PdfConvertFail(k) ==
    /\ mode = "convert" /\ k \in 1..Len(c_tasks)
    /\ c_tasks[k].type = "PDF" /\ c_tasks[k].pc = "write"
    /\ \E raises \in BOOLEAN :
         LET task == c_tasks[k]
         IN  c_tasks' = [c_tasks EXCEPT ![k] =
                IF raises
                THEN Returned(task, "<U+00E9>chec", "<U+00E9>chec conversion PDF (<e>)", <<>>)
                ELSE IF InDest(c_dest, task.target)
                THEN Returned(task, "converti",
                              IF task.how = "overwrite" THEN "converti (<U+00E9>cras<U+00E9>)"
                              ELSE IF task.how = "suffix" THEN "converti (suffix<U+00E9>)"
                              ELSE "converti",
                              task.target)
                ELSE Returned(task, "<U+00E9>chec",
                              "<U+00E9>chec conversion (sortie manquante)", <<>>)]
    /\ UNCHANGED <<convUnchanged, c_args, c_pc, c_dest, c_writes, c_rows, c_report, c_now>>

\* process_copy, lines 201-220: the existence test and, for 'suffix', the
\* time read
CopyCheck(k) ==
    /\ CanStart(k) /\ c_tasks[k].type = "COPY"
    /\ \E t \in c_now..MaxClock :
         LET task == c_tasks[k]
             c    == Check(task, c_dest, c_args.on_exists)
         IN  IF c.how = "suffix"
             THEN /\ c_tasks' = [c_tasks EXCEPT ![k] =
                        [c EXCEPT !.target = Suffixed(Expected(task), t)]]
                  /\ c_now' = t
             ELSE /\ c_tasks' = [c_tasks EXCEPT ![k] = c]
                  /\ c_now' = c_now
    /\ UNCHANGED <<convUnchanged, c_args, c_pc, c_dest, c_writes, c_rows, c_report>>

\* process_copy, lines 216-225: shutil.copy2
CopyWrite(k) ==
    /\ mode = "convert" /\ k \in 1..Len(c_tasks)
    /\ c_tasks[k].type = "COPY" /\ c_tasks[k].pc = "write"
    /\ LET task == c_tasks[k]
       IN  /\ c_dest' = WriteFile(c_dest, task.target, task.src)
           /\ c_writes' = c_writes \cup {[name |-> task.target, task |-> k]}
           /\ c_tasks' = [c_tasks EXCEPT ![k] =
                 Returned(task, "copi<U+00E9>",
                          IF task.how = "overwrite" THEN "copi<U+00E9> (<U+00E9>cras<U+00E9>)"
                          ELSE IF task.how = "suffix" THEN "copi<U+00E9> (suffix<U+00E9>)"
                          ELSE "copi<U+00E9>",
                          task.target)]
    /\ UNCHANGED <<convUnchanged, c_args, c_pc, c_rows, c_report, c_now>>

\* process_copy, lines 216-225: shutil.copy2 raises
CopyRaise(k) ==
    /\ mode = "convert" /\ k \in 1..Len(c_tasks)
    /\ c_tasks[k].type = "COPY" /\ c_tasks[k].pc = "write"
    /\ c_tasks' = [c_tasks EXCEPT ![k].pc = "raised"]
    /\ UNCHANGED <<convUnchanged, c_args, c_pc, c_dest, c_writes, c_rows, c_report, c_now>>

\* Lines 311-315: main takes the result of a finished task
Collect(k) ==
    /\ mode = "convert" /\ c_pc = "pool"
    /\ k \in 1..Len(c_tasks) /\ c_tasks[k].pc = "returned"
    /\ c_rows' = Append(c_rows, c_tasks[k].result)
    /\ c_tasks' = [c_tasks EXCEPT ![k].pc = "collected"]
    /\ UNCHANGED <<convUnchanged, c_args, c_pc, c_dest, c_writes, c_report, c_now>>

\* Line 314: future.result() raises what the task raised; the pool still
\* runs the tasks that are left (exit of the with-block, line 299)
CollectRaise(k) ==
    /\ mode = "convert" /\ c_pc = "pool"
    /\ k \in 1..Len(c_tasks) /\ c_tasks[k].pc = "raised"
    /\ c_pc' = "crashed"
    /\ UNCHANGED <<convUnchanged, c_args, c_tasks, c_dest, c_writes, c_rows, c_report, c_now>>

\* Lines 342-352: the Excel report
ConvertReport ==
    /\ mode = "convert" /\ c_pc = "pool"
    /\ \A k \in 1..Len(c_tasks) : c_tasks[k].pc = "collected"
    /\ c_report' = [written |-> TRUE, rows |-> c_rows]
    /\ c_pc' = "done"
    /\ UNCHANGED <<convUnchanged, c_args, c_tasks, c_dest, c_writes, c_rows, c_now>>

\* Lines 342-346 when the report cannot be written
ConvertReportFail ==
    /\ mode = "convert" /\ c_pc = "pool"
    /\ \A k \in 1..Len(c_tasks) : c_tasks[k].pc = "collected"
    /\ c_pc' = "crashed"
    /\ UNCHANGED <<convUnchanged, c_args, c_tasks, c_dest, c_writes, c_rows, c_report, c_now>>

\* What an earlier run left in the destination folder
OldDocx == {[name |-> <<"b">> \o W_DOCX, src |-> <<"old">>]}

InitConvert ==
    /\ mode = "convert"
    /\ in_text = <<>> /\ in_name = <<>> /\ in_ok = TRUE /\ in_reason = <<>>
    /\ called = FALSE /\ out_classify = NoCall /\ out_step = NoCall
    /\ MainIdle
    /\ MatchIdle
    /\ ExtractIdle
    /\ DedupeIdle
    /\ c_args \in [on_exists : {"skip", "overwrite", "suffix"},
                   workers   : 1..MaxWorkers,
                   pdf2docx  : BOOLEAN,
                   env       : {"ok", "no_source", "no_soffice"},
                   sources   : {S \in SUBSET SourceNames : Cardinality(S) <= MaxSources}]
    /\ c_pc = "start"
    /\ c_tasks = <<>>
    /\ c_dest \in {{}, OldDocx}
    /\ c_writes = {}
    /\ c_rows = <<>>
    /\ c_report = [written |-> FALSE, rows |-> <<>>]
    /\ c_now = 0

NextConvert ==
    \/ ConvertExit
    \/ ConvertSubmit
    \/ \E k \in 1..MaxSources :
          \/ DocCheck(k) \/ DocConvert(k) \/ DocConvertFail(k)
          \/ PdfCheck(k) \/ PdfUnlink(k) \/ PdfConvert(k) \/ PdfConvertFail(k)
          \/ CopyCheck(k) \/ CopyWrite(k) \/ CopyRaise(k)
          \/ Collect(k) \/ CollectRaise(k)
    \/ ConvertReport
    \/ ConvertReportFail

SpecConvert == InitConvert /\ [][NextConvert]_vars

-----------------------------------------------------------------------------
(* Properties of the parallel conversion (SpecConvert) *)

\* C30: with --on-exists skip, no output file is written by two tasks, and no
\* two tasks report the same file as the one they generated.
C30_WrittenAtMostOnce ==
    (mode = "convert" /\ c_args.on_exists = "skip") =>
        /\ \A v, w \in c_writes : v.name = w.name => v = w
        /\ \A j, k \in 1..Len(c_tasks) :
              (c_tasks[j].result.out # <<>>
                 /\ c_tasks[j].result.out = c_tasks[k].result.out) => j = k

=============================================================================
